---- MODULE Spec2Model ----
(***************************************************************************)
(* Scoreboard service (src/src/problem6): action tokens, per-user rate     *)
(* limiting, the score update pipeline over the PostgreSQL pool and the    *)
(* Redis cache, and the update endpoint.                                   *)
(*                                                                         *)
(* Every asynchronous method is a process that advances one awaited        *)
(* collaborator call (one Redis command, one SQL statement) per step; the  *)
(* synchronous code up to the next await belongs to the step before it.    *)
(***************************************************************************)
EXTENDS Integers, Sequences, FiniteSets

(***************************************************************************)
(* Bounds of the model                                                     *)
(***************************************************************************)
\* clock step and horizon (seconds) of the token specification
TokenStep == 150
TokenMaxTime == 600
\* clock step and horizon (seconds) of the rate limiter specifications
RateStep == 30
RateMaxTime == 90
\* Allowed results counted in one window before the callers stop calling
MaxWinCount == 12
\* action tokens issued in one run
MaxTokens == 1
\* SQL statements that fail in one run
MaxFaults == 2

Procs == {"p1", "p2"}
Users == {"user1", "user2"}
\* the :userId of a request: a user, or an identifier shorter than three characters
UserIds == Users \cup {"id"}
length == [user1 |-> 5, user2 |-> 5, id |-> 2]
Nonces == 1..MaxTokens
\* the sockets that connect in one run
Sockets == {"s1", "s2"}
\* new Map()
EmptyMap == [k \in {} |-> <<>>]

(***************************************************************************)
(* Program constants                                                       *)
(***************************************************************************)
tokenExpiration == 5 * 60
windowMs == 60 * 1000
maxRequests == 10

validActionTypes ==
    {"GAME_COMPLETE", "LEVEL_COMPLETE", "ACHIEVEMENT_UNLOCK", "BONUS_COLLECT", "DAILY_LOGIN"}
\* action types a caller may put into a token or a request body
ActionTypeInputs == {"GAME_COMPLETE", "CHEAT"}

ErrorCodes ==
    [INVALID_ACTION_TOKEN |-> "INVALID_ACTION_TOKEN",
     EXPIRED_TOKEN |-> "EXPIRED_TOKEN",
     UNAUTHORIZED |-> "UNAUTHORIZED",
     RATE_LIMIT_EXCEEDED |-> "RATE_LIMIT_EXCEEDED",
     INVALID_SCORE_INCREMENT |-> "INVALID_SCORE_INCREMENT",
     USER_NOT_FOUND |-> "USER_NOT_FOUND",
     INTERNAL_ERROR |-> "INTERNAL_ERROR"]

(***************************************************************************)
(* Strings of decimal digits: Number.prototype.toString and parseInt       *)
(***************************************************************************)
NaN == -1

RECURSIVE toString(_)
toString(n) == IF n < 10 THEN <<n>> ELSE Append(toString(n \div 10), n % 10)

RECURSIVE ParseDigits(_, _)
ParseDigits(s, acc) ==
    IF s = <<>> THEN acc ELSE ParseDigits(Tail(s), acc * 10 + Head(s))

parseInt(s) == IF s = <<>> THEN NaN ELSE ParseDigits(s, 0)

CeilDiv(a, b) == (a + b - 1) \div b

(***************************************************************************)
(* Redis keys: a key holds a value and an expiry time (NoExpiry: none)     *)
(***************************************************************************)
NoExpiry == -1
NoKey == [present |-> FALSE, val |-> <<>>, exp |-> NoExpiry]

VARIABLES
    now,            \* wall clock, seconds
    isConnected,    \* RedisClientWrapper.isConnected
    tokens,         \* nonce -> the token generateActionToken signed (issued: BOOLEAN)
    tokenKey,       \* Redis action_token:<nonce>
    rateKey,        \* Redis rate_limit:<userId>:score_update
    pc,             \* process -> the await it stands at
    arg,            \* process -> arguments of the call it runs
    loc,            \* process -> locals of the call it runs
    res,            \* process -> result of its last completed call
    validBy,        \* history: nonce -> processes whose validation returned valid
    replayed,       \* history: nonces accepted by a call that began after an acceptance
    lateDenied,     \* history: a call that began after its window had elapsed was denied
    winStart,       \* history: user -> time of the first counted request of the window
    winCount,       \* history: user -> Allowed results of that window
    user_scores,    \* table user_scores, committed rows: user -> score (NoRow: none)
    audit_log,      \* table audit_log, committed rows
    session,        \* the pooled database session: its open transaction
    scoreCache,     \* Redis user_score:<userId>
    leaderboard,    \* Redis sorted set leaderboard:global: member -> score (NoMember)
    faults,         \* SQL statements that have failed so far
    durableWrites,  \* history: processes whose score write has been committed
    emitted,        \* messages io.to(room).emit has handed to Socket.IO
    topCache,       \* Redis leaderboard:top<limit>
    writes,         \* history: ZADDs made to leaderboard:global so far
    settled,        \* history: the latest ZADD of an updateScore that has returned success
    ioSockets,      \* Socket.IO: socket id -> "new", "open" (connected) or "closed"
    ioRooms,        \* Socket.IO: socket id -> the rooms the socket has joined
    connectedUsers, \* WebSocketManager.connectedUsers: userId -> socketIds[]
    socketToUser,   \* WebSocketManager.socketToUser: socketId -> userId
    received        \* history: socket id -> the score_update messages delivered to it

tokenVars == <<tokens, tokenKey, validBy, replayed>>
rateVars == <<rateKey, lateDenied, winStart, winCount>>
authVars == <<tokenVars, rateVars>>
procVars == <<pc, arg, loc, res>>
dbVars == <<user_scores, audit_log, session, faults, durableWrites>>
histVars == <<writes, settled>>
outVars == <<emitted, topCache, histVars>>
scoreVars == <<dbVars, scoreCache, leaderboard, outVars>>
wsVars == <<ioSockets, ioRooms, connectedUsers, socketToUser, received>>
vars == <<now, isConnected, authVars, procVars, scoreVars, wsVars>>

(***************************************************************************)
(* Process records                                                         *)
(***************************************************************************)
\* the limits GET /api/leaderboard is asked for
\* the limits the readers of the board specifications ask for
BoardLimits == {1, 2, 10}
\* the limits of the cache keys leaderboard:top<limit> of a run
Limits == BoardLimits \cup {-2, -1, 50}

\* a LeaderboardResponse and the call of getTopUsers that holds it.  json: the value
\* has been through JSON.stringify.  History: readAt and seen are the time and the
\* number of ZADDs when the ranked set was read, after is the value of settled when
\* the call began, age the time since readAt when the call returned
NoTop == [limit |-> 0, topUsers |-> <<>>, totalUsers |-> 0, lastUpdated |-> 0,
          json |-> FALSE, readAt |-> 0, seen |-> 0, after |-> 0, age |-> 0]

\* what getLeaderboardStats returns; medianScore is kept in halves (twice the JavaScript
\* number), the only fractions a median of integers has
NoStats == [totalUsers |-> 0, highestScore |-> 0, averageScore |-> 0, medianScore |-> 0]

NoArg == [userId |-> "user1", token |-> 0, actionType |-> "GAME_COMPLETE",
          scoreIncrement |-> 0, entry |-> "none", n |-> 0, balances |-> <<>>,
          prices |-> <<>>]
\* afterConsumed, overlap, started and window are history: what held when the call began;
\* wrote and moved are history: the number of the call's ZADD and whether it changed
\* the sequence of actors in the first ten places
NoLoc == [currentCount |-> 0, afterConsumed |-> FALSE, overlap |-> FALSE, started |-> 0,
          window |-> -1, ret |-> "", score |-> 0, currentScore |-> 0, newScore |-> 0,
          previousScore |-> 0, oldRank |-> 0, error |-> "", first |-> "",
          committed |-> FALSE, zadded |-> FALSE, wrote |-> 0, moved |-> FALSE, keys |-> <<>>,
          top |-> NoTop, stats |-> NoStats]
\* cause, overlap, first, committed and zadded are history: which branch of the code
\* produced the result, the first error the call met and what it had done by then
NoRes == [kind |-> "none", ok |-> FALSE, error |-> "", cause |-> "", remaining |-> 0,
          overlap |-> FALSE, status |-> 0, newScore |-> 0, newRank |-> 0,
          first |-> "", committed |-> FALSE, zadded |-> FALSE, top |-> NoTop,
          stats |-> NoStats, sums |-> <<>>, originalResult |-> <<>>,
          optimizedResult |-> <<>>]

\* PostgreSQL: a missing row, a row the open transaction has not written
NoRow == -1
Untouched == -2
NoTransaction == [open |-> FALSE, scores |-> [u \in Users |-> Untouched], audit |-> {},
                  writers |-> {}]
\* Redis sorted set: not a member; zRevRank of a missing member
NoMember == -1
null == 0

NoToken == [issued |-> FALSE, userId |-> "user1", actionType |-> "GAME_COMPLETE",
            iat |-> 0, exp |-> 0]

\* the state once DatabaseConnection.initialize and RedisClient.initialize are done
InitState(failed, counted, board) ==
    /\ now = 0
    /\ isConnected = TRUE
    /\ tokens = [n \in Nonces |-> NoToken]
    /\ tokenKey = [n \in Nonces |-> NoKey]
    /\ rateKey = [u \in Users |->
                     IF counted = 0 THEN NoKey
                     ELSE [present |-> TRUE, val |-> toString(counted), exp |-> NoExpiry]]
    /\ pc = [p \in Procs |-> "idle"]
    /\ arg = [p \in Procs |-> NoArg]
    /\ loc = [p \in Procs |-> NoLoc]
    /\ res = [p \in Procs |-> NoRes]
    /\ validBy = [n \in Nonces |-> {}]
    /\ replayed = {}
    /\ lateDenied = FALSE
    /\ winStart = [u \in Users |-> IF counted = 0 THEN -1 ELSE 0]
    /\ winCount = [u \in Users |-> counted]
    /\ user_scores = [u \in Users |-> NoRow]
    /\ audit_log = {}
    /\ session = NoTransaction
    /\ scoreCache = [u \in Users |-> NoKey]
    /\ leaderboard = board
    /\ faults = failed
    /\ durableWrites = {}
    /\ emitted = {}
    /\ topCache = [k \in Limits |-> NoKey]
    /\ writes = 0
    /\ settled = 0
    /\ ioSockets = [s \in Sockets |-> "new"]
    /\ ioRooms = [s \in Sockets |-> {}]
    /\ connectedUsers = EmptyMap
    /\ socketToUser = EmptyMap
    /\ received = [s \in Sockets |-> {}]

\* the ranked set is empty
InitWith(failed, counted) == InitState(failed, counted, [u \in Users |-> NoMember])

Init == InitWith(0, 0)
\* the database answers every statement of the run
InitNoFaults == InitWith(MaxFaults, 0)
\* the users have made no request yet, or maxRequests requests in the running minute;
\* the database answers every statement
InitRoute == \E counted \in {0, maxRequests} : InitWith(MaxFaults, counted)

(***************************************************************************)
(* The clock and the Redis connection                                      *)
(***************************************************************************)
\* Redis drops a key once its time to live has run out
Expire(key, t) ==
    IF key.present /\ key.exp # NoExpiry /\ key.exp <= t THEN NoKey ELSE key

Tick(step, horizon) ==
    /\ now + step <= horizon
    /\ now' = now + step
    /\ tokenKey' = [n \in Nonces |-> Expire(tokenKey[n], now + step)]
    /\ rateKey' = [u \in Users |-> Expire(rateKey[u], now + step)]
    /\ scoreCache' = [u \in Users |-> Expire(scoreCache[u], now + step)]
    /\ topCache' = [k \in Limits |-> Expire(topCache[k], now + step)]
    /\ UNCHANGED <<wsVars, isConnected, tokens, validBy, replayed, lateDenied, winStart, winCount,
                   procVars, dbVars, leaderboard, emitted, histVars>>

\* the client's 'disconnect' and 'connect' events
Disconnect ==
    /\ isConnected
    /\ isConnected' = FALSE
    /\ UNCHANGED <<wsVars, now, authVars, procVars, scoreVars>>

Connect ==
    /\ ~isConnected
    /\ isConnected' = TRUE
    /\ UNCHANGED <<wsVars, now, authVars, procVars, scoreVars>>

\* SETEX key seconds value, SET key value (SET discards the time to live)
setex(seconds, value) == [present |-> TRUE, val |-> value, exp |-> now + seconds]
set(value) == [present |-> TRUE, val |-> value, exp |-> NoExpiry]

InFlight(q) == pc[q] \notin {"idle", "done"}

\* a call returns: the process holds the call's result
Return(p, r) ==
    /\ pc' = [pc EXCEPT ![p] = "done"]
    /\ loc' = [loc EXCEPT ![p] = NoLoc]
    /\ res' = [res EXCEPT ![p] = r]

\* the call goes on to its next await with locals l
Goto(p, label, l) ==
    /\ pc' = [pc EXCEPT ![p] = label]
    /\ loc' = [loc EXCEPT ![p] = l]
    /\ res' = res

(***************************************************************************)
(* POST /api/scores/user/:userId: what the handler does with the result of *)
(* each call it awaits.  A process that made the call directly (entry is   *)
(* not "route") just holds the result.                                     *)
(***************************************************************************)
MAX_SCORE_INCREMENT == 1000

\* res.status(status).json({ error: { code } }), res.json({ success: true, data })
Http(status, code, cause) ==
    [NoRes EXCEPT !.kind = "http", !.ok = (status = 200), !.status = status, !.error = code,
                  !.cause = cause]

\* updateScore's catch block: the failed attempt is logged, beginning with
\* previousScore: await this.getCurrentScore(request.userId)
Catch(p, l, error) ==
    Goto(p, "gcs_get", [l EXCEPT !.error = error, !.ret = "catch_prev",
                                 !.first = IF l.first = "" THEN error ELSE l.first])

\* updateScore is called: the increment is validated, then getCurrentScore is awaited
UpdateEnter(p, scoreIncrement) ==
    IF scoreIncrement <= 0 \/ scoreIncrement > MAX_SCORE_INCREMENT
    THEN Catch(p, NoLoc, ErrorCodes.INVALID_SCORE_INCREMENT)
    ELSE Goto(p, "gcs_get", [NoLoc EXCEPT !.ret = "try"])

\* the handler answers a failed update with the code of a rejected body
UpdateReturn_validationCode(p, r) ==
    IF arg[p].entry # "route" THEN Return(p, r)
    ELSE IF r.cause = "threw"
         THEN Return(p, [r EXCEPT !.kind = "http", !.status = 500,
                                  !.error = ErrorCodes.INTERNAL_ERROR])
         ELSE IF r.ok
              THEN Return(p, [r EXCEPT !.kind = "http", !.status = 200])
              ELSE Return(p, [r EXCEPT !.kind = "http", !.status = 400,
                                       !.cause = r.error, !.error = "VALIDATION_ERROR"])

\* const result = await scoreService.updateScore(...): 200, 400, or 500 from the catch
UpdateReturn(p, r) ==
    IF arg[p].entry # "route" THEN Return(p, r)
    ELSE IF r.cause = "threw"
         THEN Return(p, [r EXCEPT !.kind = "http", !.status = 500,
                                  !.error = ErrorCodes.INTERNAL_ERROR])
         ELSE IF r.ok
              THEN Return(p, [r EXCEPT !.kind = "http", !.status = 200])
              ELSE Return(p, [r EXCEPT !.kind = "http", !.status = 400,
                                       !.cause = r.error, !.error = "SCORE_UPDATE_FAILED"])

\* checkRateLimit is called: its first await is the GET of the counter
RateEnter(p, userId) ==
    Goto(p, "rl_get", [NoLoc EXCEPT !.started = now, !.window = winStart[userId]])

\* const rateLimitCheck = await authService.checkRateLimit(userId, 'score_update')
RateReturn(p, r) ==
    IF arg[p].entry # "route" THEN Return(p, r)
    ELSE IF r.cause = "threw"
         THEN Return(p, Http(500, ErrorCodes.INTERNAL_ERROR, "rate"))
         ELSE IF ~r.ok
              THEN Return(p, Http(429, ErrorCodes.RATE_LIMIT_EXCEEDED, "user"))
              ELSE UpdateEnter(p, arg[p].scoreIncrement)

\* const tokenValidation = await authService.validateActionToken(actionToken, userId)
ValidateReturn(p, entry, userId, r) ==
    IF entry # "route" THEN Return(p, r)
    ELSE IF ~r.ok
         THEN Return(p, Http(422, r.error, r.cause))
         ELSE RateEnter(p, userId)

(***************************************************************************)
(* AuthService.generateActionToken                                         *)
(***************************************************************************)
FreshNonce == CHOOSE n \in Nonces : ~tokens[n].issued /\ \A m \in 1..(n - 1) : tokens[m].issued

generateActionToken(userId, actionType) ==
    /\ \E n \in Nonces : ~tokens[n].issued
    /\ tokens' = [tokens EXCEPT ![FreshNonce] =
                    [issued |-> TRUE, userId |-> userId, actionType |-> actionType,
                     iat |-> now, exp |-> now + tokenExpiration]]
    /\ UNCHANGED <<wsVars, now, isConnected, tokenKey, validBy, replayed, rateVars, procVars,
                   scoreVars>>

(***************************************************************************)
(* AuthService.validateActionToken                                         *)
(***************************************************************************)
USED == <<"u", "s", "e", "d">>

ValidateResult(p, ok, error, cause) ==
    [NoRes EXCEPT !.kind = "validate", !.ok = ok, !.error = error, !.cause = cause,
                  !.overlap = loc[p].overlap]

\* jwt.verify(token, secret): the payload is decoded, or the named error is thrown
jwtVerify(token) ==
    IF token \notin Nonces \/ ~tokens[token].issued THEN "JsonWebTokenError"
    ELSE IF now >= tokens[token].exp THEN "TokenExpiredError"
    ELSE "ok"

\* validateActionToken is called: signature, expiry and owner are checked before the
\* first await
ValidateEnter(p, entry, token, userId) ==
    LET seen == IF token \in Nonces THEN validBy[token] # {} ELSE FALSE
        others == {q \in Procs \ {p} : pc[q] \in {"v_get", "v_setex"} /\ arg[q].token = token}
        mine == [NoLoc EXCEPT !.afterConsumed = seen, !.overlap = (others # {})]
        fail(error, cause) ==
            ValidateReturn(p, entry, userId,
                           [NoRes EXCEPT !.kind = "validate", !.error = error, !.cause = cause])
    IN  CASE jwtVerify(token) = "JsonWebTokenError" ->
                 fail(ErrorCodes.INVALID_ACTION_TOKEN, "malformed")
          [] jwtVerify(token) = "TokenExpiredError" ->
                 fail(ErrorCodes.EXPIRED_TOKEN, "expired")
          [] OTHER ->
                 IF tokens[token].userId # userId
                 THEN fail(ErrorCodes.UNAUTHORIZED, "mismatch")
                 ELSE /\ pc' = [pc EXCEPT ![p] = "v_get"]
                      /\ loc' = [q \in Procs |->
                                   IF q = p THEN mine
                                   ELSE IF q \in others
                                        THEN [loc[q] EXCEPT !.overlap = TRUE]
                                        ELSE loc[q]]
                      /\ res' = res

validateStart(p, token, userId) ==
    /\ pc[p] = "idle"
    /\ arg' = [arg EXCEPT ![p] = [NoArg EXCEPT !.userId = userId, !.token = token,
                                               !.entry = "validate"]]
    /\ ValidateEnter(p, "validate", token, userId)
    /\ UNCHANGED <<wsVars, now, isConnected, authVars, scoreVars>>

\* const tokenUsed = await RedisClient.get(tokenKey); if (tokenUsed) return invalid
validateGet(p) ==
    /\ pc[p] = "v_get"
    /\ LET return(r) == ValidateReturn(p, arg[p].entry, arg[p].userId, r) IN
       IF ~isConnected
       THEN return(ValidateResult(p, FALSE, ErrorCodes.INVALID_ACTION_TOKEN, "redis"))
       ELSE IF tokenKey[arg[p].token].present
            THEN return(ValidateResult(p, FALSE, ErrorCodes.INVALID_ACTION_TOKEN, "used"))
            ELSE /\ pc' = [pc EXCEPT ![p] = "v_setex"]
                 /\ UNCHANGED <<loc, res>>
    /\ UNCHANGED <<wsVars, now, isConnected, authVars, arg, scoreVars>>

\* await RedisClient.setex(tokenKey, this.tokenExpiration, 'used')
markUsed == setex(tokenExpiration, USED)

\* the mark is written, then the action type is checked and the call returns
validateSetex(p) ==
    /\ pc[p] = "v_setex"
    /\ LET n == arg[p].token
           return(r) == ValidateReturn(p, arg[p].entry, arg[p].userId, r)
       IN
       IF ~isConnected
       THEN /\ return(ValidateResult(p, FALSE, ErrorCodes.INVALID_ACTION_TOKEN, "redis"))
            /\ UNCHANGED <<tokenKey, validBy, replayed>>
       ELSE /\ tokenKey' = [tokenKey EXCEPT ![n] = markUsed]
            /\ IF tokens[n].actionType \notin validActionTypes
               THEN /\ return(ValidateResult(p, FALSE, ErrorCodes.INVALID_ACTION_TOKEN,
                                             "actionType"))
                    /\ UNCHANGED <<validBy, replayed>>
               ELSE /\ return(ValidateResult(p, TRUE, "", ""))
                    /\ validBy' = [validBy EXCEPT ![n] = @ \cup {p}]
                    /\ replayed' = IF loc[p].afterConsumed THEN replayed \cup {n} ELSE replayed
    /\ UNCHANGED <<wsVars, now, isConnected, tokens, rateVars, arg, scoreVars>>

(***************************************************************************)
(* AuthService.checkRateLimit                                              *)
(***************************************************************************)
windowSeconds == CeilDiv(windowMs, 1000)

\* history: a window starts with the first counted request and lasts windowSeconds
WindowOver(start, t) == start = -1 \/ t >= start + windowSeconds

RateResult(p, ok, cause, remaining) ==
    [NoRes EXCEPT !.kind = "rate", !.ok = ok, !.cause = cause, !.remaining = remaining]

rateStart(p, userId) ==
    /\ pc[p] \in {"idle", "done"}
    /\ winCount[userId] < MaxWinCount
    /\ arg' = [arg EXCEPT ![p] = [NoArg EXCEPT !.userId = userId, !.entry = "rate"]]
    /\ RateEnter(p, userId)
    /\ UNCHANGED <<wsVars, now, isConnected, authVars, scoreVars>>

\* const current = await RedisClient.get(key);
\* const currentCount = current ? parseInt(current) : 0
currentCountOf(key) == IF key.present THEN parseInt(key.val) ELSE 0

overLimit_offByOne(currentCount) == currentCount > maxRequests

\* if (currentCount >= maxRequests) return { allowed: false, remaining: 0 }
overLimit(currentCount) == currentCount >= maxRequests

rateGet(p) ==
    /\ pc[p] = "rl_get"
    /\ IF ~isConnected
       THEN RateReturn(p, RateResult(p, FALSE, "threw", 0)) /\ UNCHANGED lateDenied
       ELSE LET currentCount == currentCountOf(rateKey[arg[p].userId]) IN
            IF overLimit(currentCount)
            THEN /\ RateReturn(p, RateResult(p, FALSE, "denied", 0))
                 /\ lateDenied' = (lateDenied \/ WindowOver(loc[p].window, loc[p].started))
            ELSE /\ pc' = [pc EXCEPT ![p] = "rl_write"]
                 /\ loc' = [loc EXCEPT ![p].currentCount = currentCount]
                 /\ UNCHANGED <<res, lateDenied>>
    /\ UNCHANGED <<wsVars, now, isConnected, tokenVars, rateKey, winStart, winCount, arg, scoreVars>>

\* if (currentCount === 0) setex(key, 60, newCount) else set(key, newCount)
writeCount(currentCount) ==
    IF currentCount = 0
    THEN setex(windowSeconds, toString(currentCount + 1))
    ELSE set(toString(currentCount + 1))

rateWrite(p) ==
    /\ pc[p] = "rl_write"
    /\ IF ~isConnected
       THEN /\ RateReturn(p, RateResult(p, FALSE, "threw", 0))
            /\ UNCHANGED <<rateKey, winStart, winCount>>
       ELSE /\ rateKey' = [rateKey EXCEPT ![arg[p].userId] = writeCount(loc[p].currentCount)]
            /\ RateReturn(p, RateResult(p, TRUE, "", maxRequests - (loc[p].currentCount + 1)))
            /\ LET u == arg[p].userId IN
               IF WindowOver(winStart[u], now)
               THEN /\ winStart' = [winStart EXCEPT ![u] = now]
                    /\ winCount' = [winCount EXCEPT ![u] = 1]
               ELSE /\ winCount' = [winCount EXCEPT ![u] = @ + 1]
                    /\ UNCHANGED winStart
    /\ UNCHANGED <<wsVars, now, isConnected, tokenVars, lateDenied, arg, scoreVars>>

(***************************************************************************)
(* The database.  getConnection returns the Pool, and every db.query is a   *)
(* pool.query: it runs on the idle client released last.  Statements that  *)
(* do not overlap in time therefore share one session, and BEGIN, the      *)
(* INSERTs and COMMIT of different calls meet in that session's            *)
(* transaction.  A statement either fails without effect (the pool cannot  *)
(* hand out a connection within connectionTimeoutMillis) or takes effect.  *)
(***************************************************************************)
DbError(statement) == "db:" \o statement

QueryFails ==
    /\ faults < MaxFaults
    /\ faults' = faults + 1
    /\ UNCHANGED <<user_scores, audit_log, session, durableWrites>>

\* BEGIN (inside a transaction: a warning, no effect)
Begin ==
    /\ session' = [session EXCEPT !.open = TRUE]
    /\ UNCHANGED <<user_scores, audit_log, faults, durableWrites>>

\* INSERT INTO user_scores ... ON CONFLICT (user_id) DO UPDATE SET score = $2
Upsert(p, userId, score) ==
    /\ IF session.open
       THEN /\ session' = [session EXCEPT !.scores[userId] = score, !.writers = @ \cup {p}]
            /\ UNCHANGED <<user_scores, durableWrites>>
       ELSE /\ user_scores' = [user_scores EXCEPT ![userId] = score]
            /\ durableWrites' = durableWrites \cup {p}
            /\ UNCHANGED session
    /\ UNCHANGED <<audit_log, faults>>

\* INSERT INTO audit_log ...
InsertAudit(entry) ==
    /\ IF session.open
       THEN session' = [session EXCEPT !.audit = @ \cup {entry}] /\ UNCHANGED audit_log
       ELSE audit_log' = audit_log \cup {entry} /\ UNCHANGED session
    /\ UNCHANGED <<user_scores, faults, durableWrites>>

\* COMMIT (outside a transaction: a warning, no effect)
Commit ==
    /\ user_scores' = [u \in Users |->
                         IF session.open /\ session.scores[u] # Untouched
                         THEN session.scores[u] ELSE user_scores[u]]
    /\ audit_log' = audit_log \cup session.audit
    /\ durableWrites' = durableWrites \cup session.writers
    /\ session' = NoTransaction
    /\ UNCHANGED faults

\* ROLLBACK
Rollback ==
    /\ session' = NoTransaction
    /\ UNCHANGED <<user_scores, audit_log, faults, durableWrites>>

\* SELECT score FROM user_scores WHERE user_id = $1;
\* const score = result.rows.length > 0 ? result.rows[0].score : 0
SelectScore(userId) ==
    LET row == IF session.open /\ session.scores[userId] # Untouched
               THEN session.scores[userId] ELSE user_scores[userId]
    IN  IF row = NoRow THEN 0 ELSE row

(***************************************************************************)
(* Redis sorted set leaderboard:global                                     *)
(***************************************************************************)
\* the order of the member names as strings
UserOrder == [user1 |-> 1, user10 |-> 2, user2 |-> 3, user3 |-> 4, user4 |-> 5, user5 |-> 6,
              user6 |-> 7, user7 |-> 8, user8 |-> 9, user9 |-> 10]

\* the names the ranked set has a place for: the actors, and the sample users once
\* initializeSampleData has run
Members == DOMAIN leaderboard

\* zRevRank: members with a higher score, or the same score and a greater name, come first
zrank(member) ==
    IF leaderboard[member] = NoMember THEN null
    ELSE Cardinality({v \in Members :
             /\ leaderboard[v] # NoMember
             /\ \/ leaderboard[v] > leaderboard[member]
                \/ leaderboard[v] = leaderboard[member] /\ UserOrder[v] > UserOrder[member]})

\* the position is returned as ZREVRANK gives it
getUserRank_zeroBased(userId) == IF leaderboard[userId] = NoMember THEN null ELSE zrank(userId)

\* return rank !== null ? rank + 1 : null
getUserRank(userId) == IF leaderboard[userId] = NoMember THEN null ELSE zrank(userId) + 1

\* the actors in the first ten places, in order: what the leaderboard page shows
Window ==
    LET members == {v \in Members : leaderboard[v] # NoMember}
        shown == {v \in members : zrank(v) < 10}
    IN  [i \in 1..Cardinality(shown) |-> CHOOSE v \in shown : zrank(v) = i - 1]

(***************************************************************************)
(* ScoreService.getCurrentScore, as updateScore awaits it at three places  *)
(***************************************************************************)
AuditEntry(p, previousScore, newScore, success, errorMessage) ==
    [req |-> p, userId |-> arg[p].userId, actionType |-> arg[p].actionType,
     scoreChange |-> arg[p].scoreIncrement, previousScore |-> previousScore,
     newScore |-> newScore, success |-> success, errorMessage |-> errorMessage]

UpdateResult(l, ok, newScore, newRank, message, cause) ==
    [NoRes EXCEPT !.kind = "update", !.ok = ok, !.newScore = newScore, !.newRank = newRank,
                  !.error = message, !.cause = cause, !.first = l.first,
                  !.committed = l.committed, !.zadded = l.zadded]

\* getCurrentScore returns score to the place that awaited it
GcsReturn(p, score) ==
    LET l == loc[p] IN
    CASE l.ret = "try" ->
             Goto(p, "us_begin", [l EXCEPT !.currentScore = score,
                                           !.newScore = score + arg[p].scoreIncrement])
      [] l.ret = "catch_prev" ->
             Goto(p, "catch_audit", [l EXCEPT !.previousScore = score])
      [] OTHER ->
             UpdateReturn(p, UpdateResult(l, FALSE, score, null, l.error, ""))

\* getCurrentScore throws: inside the try block the catch block takes over, inside
\* the catch block updateScore itself rejects
GcsThrow(p, error) ==
    LET l == loc[p] IN
    IF l.ret = "try"
    THEN Catch(p, l, error)
    ELSE UpdateReturn(p, UpdateResult([l EXCEPT !.first = IF @ = "" THEN error ELSE @],
                                      FALSE, 0, null, error, "threw"))

\* const cachedScore = await RedisClient.get(`user_score:${userId}`)
gcsGet(p) ==
    /\ pc[p] = "gcs_get"
    /\ LET key == scoreCache[arg[p].userId] IN
       IF ~isConnected THEN GcsThrow(p, "redis")
       ELSE IF key.present THEN GcsReturn(p, parseInt(key.val))
       ELSE Goto(p, "gcs_select", loc[p])
    /\ UNCHANGED <<wsVars, now, isConnected, authVars, arg, scoreVars>>

\* const result = await db.query('SELECT score FROM user_scores WHERE user_id = $1')
gcsSelect(p) ==
    /\ pc[p] = "gcs_select"
    /\ \/ QueryFails /\ GcsThrow(p, DbError("SELECT"))
       \/ /\ Goto(p, "gcs_setex", [loc[p] EXCEPT !.score = SelectScore(arg[p].userId)])
          /\ UNCHANGED dbVars
    /\ UNCHANGED <<wsVars, now, isConnected, authVars, arg, scoreCache, leaderboard, outVars>>

\* await RedisClient.setex(`user_score:${userId}`, 300, score.toString())
cacheScore(score) == setex(300, toString(score))

gcsSetex(p) ==
    /\ pc[p] = "gcs_setex"
    /\ IF ~isConnected
       THEN GcsThrow(p, "redis") /\ UNCHANGED scoreCache
       ELSE /\ scoreCache' = [scoreCache EXCEPT ![arg[p].userId] = cacheScore(loc[p].score)]
            /\ GcsReturn(p, loc[p].score)
    /\ UNCHANGED <<wsVars, now, isConnected, authVars, arg, dbVars, leaderboard, outVars>>

(***************************************************************************)
(* ScoreService.updateScore                                                *)
(***************************************************************************)
updateStart(p, userId, actionType, scoreIncrement) ==
    /\ pc[p] = "idle"
    /\ arg' = [arg EXCEPT ![p] = [NoArg EXCEPT !.userId = userId, !.actionType = actionType,
                                               !.scoreIncrement = scoreIncrement,
                                               !.entry = "update"]]
    /\ UpdateEnter(p, scoreIncrement)
    /\ UNCHANGED <<wsVars, now, isConnected, authVars, scoreVars>>

\* the inner catch block: await db.query('ROLLBACK'); throw dbError
ToRollback(p, l, error) ==
    Goto(p, "us_rollback", [l EXCEPT !.error = error,
                                     !.first = IF l.first = "" THEN error ELSE l.first])

\* await db.query('BEGIN'), outside the inner try block
usBegin(p) ==
    /\ pc[p] = "us_begin"
    /\ \/ QueryFails /\ Catch(p, loc[p], DbError("BEGIN"))
       \/ Begin /\ Goto(p, "us_upsert", loc[p])
    /\ UNCHANGED <<wsVars, now, isConnected, authVars, arg, scoreCache, leaderboard, outVars>>

\* await db.query('INSERT INTO user_scores ... ON CONFLICT ... DO UPDATE SET score = $2')
usUpsert(p) ==
    /\ pc[p] = "us_upsert"
    /\ \/ QueryFails /\ ToRollback(p, loc[p], DbError("INSERT"))
       \/ Upsert(p, arg[p].userId, loc[p].newScore) /\ Goto(p, "us_audit", loc[p])
    /\ UNCHANGED <<wsVars, now, isConnected, authVars, arg, scoreCache, leaderboard, outVars>>

\* await this.logAuditEntry(auditEntry), success: true; logAuditEntry swallows the error
usAudit(p) ==
    /\ pc[p] = "us_audit"
    /\ \/ QueryFails
       \/ InsertAudit(AuditEntry(p, loc[p].currentScore, loc[p].newScore, TRUE, ""))
    /\ Goto(p, "us_commit", loc[p])
    /\ UNCHANGED <<wsVars, now, isConnected, authVars, arg, scoreCache, leaderboard, outVars>>

\* await db.query('COMMIT')
usCommit(p) ==
    /\ pc[p] = "us_commit"
    /\ \/ QueryFails /\ ToRollback(p, loc[p], DbError("COMMIT"))
       \/ Commit /\ Goto(p, "us_cache", [loc[p] EXCEPT !.committed = TRUE])
    /\ UNCHANGED <<wsVars, now, isConnected, authVars, arg, scoreCache, leaderboard, outVars>>

\* await this.updateScoreCache(request.userId, newScore)
usCache(p) ==
    /\ pc[p] = "us_cache"
    /\ IF ~isConnected
       THEN ToRollback(p, loc[p], "redis") /\ UNCHANGED scoreCache
       ELSE /\ scoreCache' = [scoreCache EXCEPT ![arg[p].userId] = cacheScore(loc[p].newScore)]
            /\ Goto(p, "us_rank_old", loc[p])
    /\ UNCHANGED <<wsVars, now, isConnected, authVars, arg, dbVars, leaderboard, outVars>>

\* const oldRank = await this.getUserRank(request.userId)
usRankOld(p) ==
    /\ pc[p] = "us_rank_old"
    /\ IF ~isConnected
       THEN ToRollback(p, loc[p], "redis")
       ELSE Goto(p, "us_zadd", [loc[p] EXCEPT !.oldRank = getUserRank(arg[p].userId)])
    /\ UNCHANGED <<wsVars, now, isConnected, authVars, arg, scoreVars>>

\* await this.updateLeaderboard(request.userId, newScore)
usZadd(p) ==
    /\ pc[p] = "us_zadd"
    /\ IF ~isConnected
       THEN ToRollback(p, loc[p], "redis") /\ UNCHANGED <<leaderboard, writes>>
       ELSE /\ leaderboard' = [leaderboard EXCEPT ![arg[p].userId] = loc[p].newScore]
            /\ writes' = writes + 1
            /\ Goto(p, "us_rank_new", [loc[p] EXCEPT !.zadded = TRUE, !.wrote = writes + 1,
                                                     !.moved = (Window' # Window)])
    /\ UNCHANGED <<wsVars, now, isConnected, authVars, arg, dbVars, scoreCache, emitted, topCache,
                   settled>>

(***************************************************************************)
(* WebSocketManager: the messages handed to Socket.IO.  req and moved are   *)
(* history: the call of updateScore that sent the message, and whether its *)
(* ZADD changed the sequence of actors in the first ten places.            *)
(***************************************************************************)
NoMessage == [type |-> "", room |-> "", req |-> "", userId |-> "", newScore |-> 0,
              oldRank |-> null, newRank |-> null, scoreIncrease |-> 0, moved |-> FALSE]

\* this.io.to(`user:${userId}`).emit('score_update', message)
notifyUserScoreUpdate(p, userId, newScore, oldRank, newRank, scoreIncrease) ==
    [NoMessage EXCEPT !.type = "score_update", !.room = "user:" \o userId, !.req = p,
                      !.userId = userId, !.newScore = newScore, !.oldRank = oldRank,
                      !.newRank = newRank, !.scoreIncrease = scoreIncrease]

\* this.io.to('leaderboard').emit('leaderboard_update', message)
broadcastLeaderboardUpdate(p) ==
    [NoMessage EXCEPT !.type = "leaderboard_update", !.room = "leaderboard", !.req = p,
                      !.moved = loc[p].moved]

\* if (newRank !== null && (oldRank === null || Math.abs(newRank - oldRank) > 0))
\*     if (newRank < 10)
rankChanged(oldRank, newRank) ==
    /\ newRank # null
    /\ oldRank = null \/ newRank # oldRank
    /\ newRank < 10

\* the error an emit or the logger throws
EmitError == "emit"

\* the notifications of a committed update that read newRank: they run inside the inner
\* try block and either of them may throw; then
\* return { success: true, newScore, newRank: newRank || undefined }
notifications(p, l, newRank) ==
    LET personal == notifyUserScoreUpdate(p, arg[p].userId, l.newScore, l.oldRank, newRank,
                                          arg[p].scoreIncrement)
    IN  \/ ToRollback(p, l, EmitError) /\ UNCHANGED <<emitted, settled>>
        \/ /\ rankChanged(l.oldRank, newRank)
           /\ emitted' = emitted \cup {personal}
           /\ ToRollback(p, l, EmitError)
           /\ UNCHANGED settled
        \/ /\ emitted' = emitted \cup {personal} \cup
                   (IF rankChanged(l.oldRank, newRank)
                    THEN {broadcastLeaderboardUpdate(p)} ELSE {})
           /\ settled' = IF l.wrote > settled THEN l.wrote ELSE settled
           /\ UpdateReturn(p, UpdateResult(l, TRUE, l.newScore, newRank, "", ""))

\* const newRank = await this.getUserRank(request.userId), then the notifications
usRankNew(p) ==
    /\ pc[p] = "us_rank_new"
    /\ IF ~isConnected
       THEN ToRollback(p, loc[p], "redis") /\ UNCHANGED <<emitted, settled>>
       ELSE notifications(p, loc[p], getUserRank(arg[p].userId))
    /\ UNCHANGED <<wsVars, now, isConnected, authVars, arg, dbVars, scoreCache, leaderboard,
                   topCache, writes>>

\* catch (dbError) { await db.query('ROLLBACK'); throw dbError; }
usRollback(p) ==
    /\ pc[p] = "us_rollback"
    /\ \/ QueryFails /\ Catch(p, loc[p], DbError("ROLLBACK"))
       \/ Rollback /\ Catch(p, loc[p], loc[p].error)
    /\ UNCHANGED <<wsVars, now, isConnected, authVars, arg, scoreCache, leaderboard, outVars>>

\* await this.logAuditEntry(auditEntry), success: false, newScore: 0; then
\* newScore: await this.getCurrentScore(request.userId) for the result
catchAudit(p) ==
    /\ pc[p] = "catch_audit"
    /\ \/ QueryFails
       \/ InsertAudit(AuditEntry(p, loc[p].previousScore, 0, FALSE, loc[p].error))
    /\ Goto(p, "gcs_get", [loc[p] EXCEPT !.ret = "catch_ret"])
    /\ UNCHANGED <<wsVars, now, isConnected, authVars, arg, scoreCache, leaderboard, outVars>>

\* pool idleTimeoutMillis: the idle client is closed, the server rolls its transaction back
idleTimeout ==
    /\ session.open
    /\ \A p \in Procs : ~InFlight(p)
    /\ Rollback
    /\ UNCHANGED <<wsVars, now, isConnected, authVars, procVars, scoreCache, leaderboard, outVars>>

(***************************************************************************)
(* POST /api/scores/user/:userId: rateLimitMiddleware, authMiddleware,     *)
(* validateScoreUpdate, then the handler                                   *)
(***************************************************************************)
\* scoreUpdateSchema.validate(req.body)
validBody(actionType, scoreIncrement) ==
    /\ actionType \in validActionTypes
    /\ scoreIncrement >= 1 /\ scoreIncrement <= 1000

\* ipOver: the request is beyond the tenth of its IP address in the minute.
\* validateUser answers false for a short identifier, else awaits checkUserExists
routeStart(p, userId, actionType, scoreIncrement, token, ipOver) ==
    /\ pc[p] = "idle"
    /\ arg' = [arg EXCEPT ![p] = [NoArg EXCEPT !.userId = userId, !.token = token,
                                               !.actionType = actionType,
                                               !.scoreIncrement = scoreIncrement,
                                               !.entry = "route"]]
    /\ IF ipOver THEN Return(p, Http(429, ErrorCodes.RATE_LIMIT_EXCEEDED, "ip"))
       ELSE IF length[userId] < 3 THEN Return(p, Http(401, ErrorCodes.UNAUTHORIZED, "user"))
       ELSE Goto(p, "auth_get", NoLoc)
    /\ UNCHANGED <<wsVars, now, isConnected, authVars, scoreVars>>

\* const userData = await RedisClient.get(userKey);
\* return userData !== null || userId.length >= 3; then validateScoreUpdate and the
\* handler up to its first await
authGet(p) ==
    /\ pc[p] = "auth_get"
    /\ IF ~isConnected THEN Return(p, Http(500, ErrorCodes.INTERNAL_ERROR, "auth"))
       ELSE IF ~validBody(arg[p].actionType, arg[p].scoreIncrement)
            THEN Return(p, Http(400, "VALIDATION_ERROR", "body"))
            ELSE ValidateEnter(p, "route", arg[p].token, arg[p].userId)
    /\ UNCHANGED <<wsVars, now, isConnected, authVars, arg, scoreVars>>

(***************************************************************************)
(* RedisClientWrapper.zcard and zrevrange                                  *)
(***************************************************************************)
zcard == Cardinality({v \in Members : leaderboard[v] # NoMember})

\* the string `${item.value}:${item.score}`: the identifier, a colon, the digits
WithScore(value, score) == <<value, ":">> \o toString(score)

\* the decimal digits an identifier begins with: none for these users
LeadingDigits == [u \in DOMAIN UserOrder |-> <<>>]

\* parseInt of `${item.value}:${item.score}` reads the digits the value begins with
parseIntItem(item) == parseInt(LeadingDigits[Head(item)])

\* zRevRangeWithScores(key, start, stop), then result.map(item => `${item.value}:${item.score}`)
\* a negative stop counts from the end of the set
rangeLast(card, stop) ==
    LET to == IF stop < 0 THEN card + stop ELSE stop
    IN  IF to < card - 1 THEN to ELSE card - 1

zrevrange(start, stop) ==
    LET last == rangeLast(zcard, stop)
        MemberAt(i) == CHOOSE v \in Members : leaderboard[v] # NoMember /\ zrank(v) = i
    IN  IF last < start THEN <<>>
        ELSE [i \in 1..(last - start + 1) |->
                 WithScore(MemberAt(start + i - 1), leaderboard[MemberAt(start + i - 1)])]

(***************************************************************************)
(* LeaderboardService                                                      *)
(***************************************************************************)
LEADERBOARD_CACHE_TTL == 30

\* JSON.stringify writes NaN as null and a Date as its ISO string; JSON.parse reads
\* them back as null and as a string
JsonNull == -2

JSONstringify(response) ==
    [text |-> [response EXCEPT
                   !.json = TRUE, !.after = 0,
                   !.topUsers = [j \in DOMAIN response.topUsers |->
                                    [response.topUsers[j] EXCEPT
                                         !.currentScore = IF @ = NaN THEN JsonNull ELSE @]]]]

JSONparse(cachedData) == cachedData.text

\* for (let i = 0; i < topUserIds.length; i += 2): userId = topUserIds[i],
\* score = parseInt(topUserIds[i + 1]), rank = (i / 2) + 1; topUserIds[i + 1] is
\* undefined past the end of the array and parseInt(undefined) is NaN
topUsersOf(topUserIds) ==
    [j \in 1..CeilDiv(Len(topUserIds), 2) |->
        [userId |-> topUserIds[2 * j - 1],
         currentScore |-> IF 2 * j <= Len(topUserIds) THEN parseIntItem(topUserIds[2 * j])
                          ELSE NaN,
         rank |-> j]]

TopResult(top, cause) ==
    [NoRes EXCEPT !.kind = "top", !.ok = (cause # "threw"), !.cause = cause,
                  !.error = IF cause = "threw" THEN "Failed to fetch leaderboard" ELSE "",
                  !.top = [top EXCEPT !.age = IF cause = "threw" THEN 0 ELSE now - top.readAt]]

\* getTopUsers(limit) is called
getTopStart(p, limit) ==
    /\ pc[p] \in {"idle", "done"}
    /\ arg' = [arg EXCEPT ![p] = [NoArg EXCEPT !.entry = "top"]]
    /\ pc' = [pc EXCEPT ![p] = "gt_get"]
    /\ loc' = [loc EXCEPT ![p] = [NoLoc EXCEPT !.top = [NoTop EXCEPT !.limit = limit,
                                                                     !.after = settled]]]
    /\ res' = [res EXCEPT ![p] = NoRes]
    /\ UNCHANGED <<wsVars, now, isConnected, authVars, scoreVars>>

\* const cachedData = await RedisClient.get(cacheKey);
\* if (cachedData) return JSON.parse(cachedData)
gtGet(p) ==
    /\ pc[p] = "gt_get"
    /\ LET t == loc[p].top
           key == topCache[t.limit]
       IN  IF ~isConnected THEN Return(p, TopResult(t, "threw"))
           ELSE IF key.present
                THEN Return(p, TopResult([JSONparse(key.val) EXCEPT !.after = t.after],
                                         "hit"))
                ELSE Goto(p, "gt_range", loc[p])
    /\ UNCHANGED <<wsVars, now, isConnected, authVars, arg, scoreVars>>

\* const topUserIds = await RedisClient.zrevrange(this.LEADERBOARD_KEY, 0, limit - 1, true)
\* and the loop that builds topUsers
gtRange(p) ==
    /\ pc[p] = "gt_range"
    /\ LET t == loc[p].top IN
       IF ~isConnected THEN Return(p, TopResult(t, "threw"))
       ELSE Goto(p, "gt_card",
                 [loc[p] EXCEPT !.top = [t EXCEPT
                                             !.topUsers = topUsersOf(zrevrange(0, t.limit - 1)),
                                             !.readAt = now, !.seen = writes]])
    /\ UNCHANGED <<wsVars, now, isConnected, authVars, arg, scoreVars>>

\* const totalUsers = await RedisClient.zcard(this.LEADERBOARD_KEY);
\* const response = { topUsers, lastUpdated: new Date(), totalUsers }
gtCard(p) ==
    /\ pc[p] = "gt_card"
    /\ LET t == loc[p].top IN
       IF ~isConnected THEN Return(p, TopResult(t, "threw"))
       ELSE Goto(p, "gt_setex",
                 [loc[p] EXCEPT !.top = [t EXCEPT !.totalUsers = zcard, !.lastUpdated = now]])
    /\ UNCHANGED <<wsVars, now, isConnected, authVars, arg, scoreVars>>

\* await RedisClient.setex(cacheKey, this.LEADERBOARD_CACHE_TTL, JSON.stringify(response));
\* return response
gtSetex(p) ==
    /\ pc[p] = "gt_setex"
    /\ LET t == loc[p].top IN
       IF ~isConnected THEN Return(p, TopResult(t, "threw")) /\ UNCHANGED topCache
       ELSE /\ topCache' = [topCache EXCEPT
                               ![t.limit] = setex(LEADERBOARD_CACHE_TTL, JSONstringify(t))]
            /\ Return(p, TopResult(t, "miss"))
    /\ UNCHANGED <<wsVars, now, isConnected, authVars, arg, dbVars, scoreCache, leaderboard, emitted,
                   histVars>>

\* GET /api/leaderboard?limit=...: the query is <<>> when limit is absent or not a
\* number, else the integer it spells
maxLimit == 50

\* parseInt(req.query.limit as string) || 10
limitOf(query) == IF query = <<>> \/ Head(query) = 0 THEN 10 ELSE Head(query)

\* the handler up to its first await: the check against maxLimit, then getTopUsers(limit)
leaderboardGet(p, query) ==
    /\ pc[p] \in {"idle", "done"}
    /\ LET limit == limitOf(query) IN
       /\ arg' = [arg EXCEPT ![p] = [NoArg EXCEPT !.entry = "leaderboard", !.n = limit]]
       /\ IF limit > maxLimit THEN Return(p, Http(400, "INVALID_LIMIT", "limit"))
          ELSE /\ pc' = [pc EXCEPT ![p] = "gt_get"]
               /\ loc' = [loc EXCEPT ![p] = [NoLoc EXCEPT !.top = [NoTop EXCEPT
                                                                       !.limit = limit,
                                                                       !.after = settled]]]
               /\ res' = [res EXCEPT ![p] = NoRes]
    /\ UNCHANGED <<wsVars, now, isConnected, authVars, scoreVars>>

\* getUserPosition: rank from zrank, converted to 1-based; score from zscore; zcard
getUserPosition(userId) ==
    [rank |-> IF leaderboard[userId] = NoMember THEN null ELSE zrank(userId) + 1,
     score |-> IF leaderboard[userId] = NoMember THEN 0
               ELSE parseInt(toString(leaderboard[userId])),
     totalUsers |-> zcard]

\* getLeaderboardAroundUser(userId, range): the members from range places before the
\* user to range places after, read like the reply of getTopUsers
getLeaderboardAroundUser(userId, range) ==
    IF leaderboard[userId] = NoMember THEN <<>>
    ELSE LET userRank == zrank(userId)
             start == IF userRank - range > 0 THEN userRank - range ELSE 0
             userIds == zrevrange(start, userRank + range)
         IN  [j \in 1..CeilDiv(Len(userIds), 2) |->
                 [userId |-> userIds[2 * j - 1],
                  currentScore |-> IF 2 * j <= Len(userIds) THEN parseIntItem(userIds[2 * j])
                                   ELSE NaN,
                  rank |-> start + j]]

\* const keys = ['leaderboard:top10', 'leaderboard:top25', 'leaderboard:top50']
invalidatedLimits == <<10, 25, 50>>

BoardResult(cause) == [NoRes EXCEPT !.kind = "board", !.ok = (cause # "threw"), !.cause = cause]

\* updateUserScore(userId, score) is called
upsertStart(p, userId, score) ==
    /\ pc[p] = "idle"
    /\ arg' = [arg EXCEPT ![p] = [NoArg EXCEPT !.userId = userId, !.entry = "board"]]
    /\ Goto(p, "lb_zadd", [NoLoc EXCEPT !.score = score])
    /\ UNCHANGED <<wsVars, now, isConnected, authVars, scoreVars>>

\* await RedisClient.zadd(this.LEADERBOARD_KEY, score, userId)
lbZadd(p) ==
    /\ pc[p] = "lb_zadd"
    /\ IF ~isConnected
       THEN Return(p, BoardResult("threw")) /\ UNCHANGED <<leaderboard, writes>>
       ELSE /\ leaderboard' = [leaderboard EXCEPT ![arg[p].userId] = loc[p].score]
            /\ writes' = writes + 1
            /\ Goto(p, "inv_del", [loc[p] EXCEPT !.keys = invalidatedLimits])
    /\ UNCHANGED <<wsVars, now, isConnected, authVars, arg, dbVars, scoreCache, emitted, topCache,
                   settled>>

\* invalidateLeaderboardCache: for (const key of keys) await RedisClient.del(key)
invDel(p) ==
    /\ pc[p] = "inv_del"
    /\ LET keys == loc[p].keys IN
       IF ~isConnected
       THEN Return(p, BoardResult("threw")) /\ UNCHANGED topCache
       ELSE /\ topCache' = [k \in Limits |-> IF k = Head(keys) THEN NoKey ELSE topCache[k]]
            /\ IF Tail(keys) = <<>> THEN Return(p, BoardResult(""))
               ELSE Goto(p, "inv_del", [loc[p] EXCEPT !.keys = Tail(keys)])
    /\ UNCHANGED <<wsVars, now, isConnected, authVars, arg, dbVars, scoreCache, leaderboard, emitted,
                   histVars>>

\* removeUser(userId) is called
removeStart(p, userId) ==
    /\ pc[p] = "idle"
    /\ arg' = [arg EXCEPT ![p] = [NoArg EXCEPT !.userId = userId, !.entry = "board"]]
    /\ Goto(p, "rm_del", [NoLoc EXCEPT !.ret = "remove"])
    /\ UNCHANGED <<wsVars, now, isConnected, authVars, scoreVars>>

\* await RedisClient.del(`user_score:${userId}`); the member stays in the sorted set
rmDel(p) ==
    /\ pc[p] = "rm_del"
    /\ IF ~isConnected
       THEN Return(p, BoardResult("threw")) /\ UNCHANGED scoreCache
       ELSE /\ scoreCache' = [scoreCache EXCEPT ![arg[p].userId] = NoKey]
            /\ Goto(p, "inv_del", [loc[p] EXCEPT !.keys = invalidatedLimits])
    /\ UNCHANGED <<wsVars, now, isConnected, authVars, arg, dbVars, leaderboard, outVars>>

(***************************************************************************)
(* LeaderboardService.getLeaderboardStats                                  *)
(***************************************************************************)
RECURSIVE sortAscending(_)
\* [...scores].sort((a, b) => a - b)
sortAscending(scores) ==
    IF scores = <<>> THEN <<>>
    ELSE LET i == CHOOSE i \in 1..Len(scores) : \A j \in 1..Len(scores) : scores[i] <= scores[j]
         IN  <<scores[i]>> \o sortAscending(SubSeq(scores, 1, i - 1)
                                               \o SubSeq(scores, i + 1, Len(scores)))

\* calculateMedian, in halves.  parseInt gives NaN for every item or for none (the
\* identifiers begin alike), and an array of NaN has the median NaN
calculateMedian(scores) ==
    IF \E i \in 1..Len(scores) : scores[i] = NaN THEN NaN
    ELSE LET sorted == sortAscending(scores)
             middle == Len(sorted) \div 2
         IN  IF Len(sorted) % 2 = 0
             THEN sorted[middle] + sorted[middle + 1]
             ELSE 2 * sorted[middle + 1]

RECURSIVE reduceSum(_)
\* scores.reduce((a, b) => a + b, 0): NaN once an element is NaN
reduceSum(scores) ==
    IF scores = <<>> THEN 0
    ELSE IF Head(scores) = NaN \/ reduceSum(Tail(scores)) = NaN THEN NaN
    ELSE Head(scores) + reduceSum(Tail(scores))

\* Math.round(sum / length): the nearest integer, halves upwards
MathRound(sum, count) ==
    IF sum = NaN THEN NaN ELSE (2 * sum + count) \div (2 * count)

StatsResult(stats, cause) ==
    [NoRes EXCEPT !.kind = "stats", !.ok = (cause # "threw"), !.cause = cause, !.stats = stats]

\* getLeaderboardStats() is called
statsStart(p) ==
    /\ pc[p] \in {"idle", "done"}
    /\ arg' = [arg EXCEPT ![p] = [NoArg EXCEPT !.entry = "board"]]
    /\ pc' = [pc EXCEPT ![p] = "st_card"]
    /\ loc' = [loc EXCEPT ![p] = NoLoc]
    /\ res' = [res EXCEPT ![p] = NoRes]
    /\ UNCHANGED <<wsVars, now, isConnected, authVars, scoreVars>>

\* const totalUsers = await RedisClient.zcard(KEY); if (totalUsers === 0) return zeros
stCard(p) ==
    /\ pc[p] = "st_card"
    /\ IF ~isConnected THEN Return(p, StatsResult(NoStats, "threw"))
       ELSE IF zcard = 0 THEN Return(p, StatsResult(NoStats, "empty"))
       ELSE Goto(p, "st_top", [loc[p] EXCEPT !.stats.totalUsers = zcard])
    /\ UNCHANGED <<wsVars, now, isConnected, authVars, arg, scoreVars>>

\* const topScores = await RedisClient.zrevrange(KEY, 0, 0, true);
\* const highestScore = topScores.length > 1 ? parseInt(topScores[1]) : 0
stTop(p) ==
    /\ pc[p] = "st_top"
    /\ LET topScores == zrevrange(0, 0)
           highestScore == IF Len(topScores) > 1 THEN parseIntItem(topScores[2]) ELSE 0
       IN  IF ~isConnected THEN Return(p, StatsResult(NoStats, "threw"))
           ELSE Goto(p, "st_all", [loc[p] EXCEPT !.stats.highestScore = highestScore])
    /\ UNCHANGED <<wsVars, now, isConnected, authVars, arg, scoreVars>>

\* const allScores = await RedisClient.zrevrange(KEY, 0, -1, true);
\* for (let i = 1; i < allScores.length; i += 2) scores.push(parseInt(allScores[i]))
stAll(p) ==
    /\ pc[p] = "st_all"
    /\ LET allScores == zrevrange(0, -1)
           scores == [j \in 1..(Len(allScores) \div 2) |-> parseIntItem(allScores[2 * j])]
           averageScore == IF Len(scores) > 0 THEN MathRound(reduceSum(scores), Len(scores))
                           ELSE 0
           medianScore == IF Len(scores) > 0 THEN calculateMedian(scores) ELSE 0
       IN  IF ~isConnected THEN Return(p, StatsResult(NoStats, "threw"))
           ELSE Return(p, StatsResult([loc[p].stats EXCEPT !.averageScore = averageScore,
                                                           !.medianScore = medianScore], ""))
    /\ UNCHANGED <<wsVars, now, isConnected, authVars, arg, scoreVars>>

(***************************************************************************)
(* problem4: three ways to sum to n                                        *)
(***************************************************************************)
\* the largest input tried
MaxN == 50

RECURSIVE forLoop(_, _, _)
\* for (let i = 1; i <= n; i++) sum += i
forLoop(i, n, sum) == IF i <= n THEN forLoop(i + 1, n, sum + i) ELSE sum

\* the loop stops one short of n
sum_to_n_a_skipsLast(n) == forLoop(1, n - 1, 0)

sum_to_n_a(n) == forLoop(1, n, 0)

\* return (n * (n + 1)) / 2: the product of two neighbours is even, the quotient exact
sum_to_n_b(n) == (n * (n + 1)) \div 2

RECURSIVE sum_to_n_c(_)
\* if (n <= 1) return n; return n + sum_to_n_c(n - 1)
sum_to_n_c(n) == IF n <= 1 THEN n ELSE n + sum_to_n_c(n - 1)

\* runTests: the three implementations are called with input n
runTests(p, n) ==
    /\ pc[p] \in {"idle", "done"}
    /\ arg' = [arg EXCEPT ![p] = [NoArg EXCEPT !.entry = "sum", !.n = n]]
    /\ Return(p, [NoRes EXCEPT !.kind = "sum", !.ok = TRUE,
                               !.sums = <<sum_to_n_a(n), sum_to_n_b(n), sum_to_n_c(n)>>])
    /\ UNCHANGED <<wsVars, now, isConnected, authVars, scoreVars>>

NextSum == \E p \in Procs, n \in 1..MaxN : runTests(p, n)

SpecSum == InitNoFaults /\ [][NextSum]_vars

(***************************************************************************)
(* Specifications of the token validator and of the rate limiter           *)
(***************************************************************************)
TokenInputs == Nonces \cup {0}
\* the rate limiter specifications follow one user's key
RateUsers == {"user1"}

NextToken ==
    \/ Tick(TokenStep, TokenMaxTime)
    \/ Disconnect
    \/ Connect
    \/ \E u \in Users, a \in ActionTypeInputs : generateActionToken(u, a)
    \/ \E p \in Procs, t \in TokenInputs, u \in Users : validateStart(p, t, u)
    \/ \E p \in Procs : validateGet(p)
    \/ \E p \in Procs : validateSetex(p)

SpecToken == Init /\ [][NextToken]_vars

\* concurrent calls inside one window
NextRate ==
    \/ Disconnect
    \/ Connect
    \/ \E p \in Procs, u \in RateUsers : rateStart(p, u)
    \/ \E p \in Procs : rateGet(p)
    \/ \E p \in Procs : rateWrite(p)

SpecRate == Init /\ [][NextRate]_vars

\* one call at a time
Serial(p) == \A q \in Procs \ {p} : ~InFlight(q)

NextRateSeq ==
    \/ Tick(RateStep, RateMaxTime)
    \/ Disconnect
    \/ Connect
    \/ \E p \in Procs, u \in RateUsers : Serial(p) /\ rateStart(p, u)
    \/ \E p \in Procs : rateGet(p)
    \/ \E p \in Procs : rateWrite(p)

SpecRateSeq == Init /\ [][NextRateSeq]_vars

(***************************************************************************)
(* Specification of the score update: concurrent direct calls of           *)
(* updateScore                                                             *)
(***************************************************************************)
DeltaInputs == {0, 1, 1000, 1001}

updateScore(p) ==
    \/ gcsGet(p)
    \/ gcsSelect(p)
    \/ gcsSetex(p)
    \/ usBegin(p)
    \/ usUpsert(p)
    \/ usAudit(p)
    \/ usCommit(p)
    \/ usCache(p)
    \/ usRankOld(p)
    \/ usZadd(p)
    \/ usRankNew(p)
    \/ usRollback(p)
    \/ catchAudit(p)

\* concurrent calls, the database answers every statement
NextScore ==
    \/ Disconnect
    \/ Connect
    \/ \E p \in Procs, u \in Users, d \in DeltaInputs : updateStart(p, u, "GAME_COMPLETE", d)
    \/ \E p \in Procs : updateScore(p)

SpecScore == InitNoFaults /\ [][NextScore]_vars

\* one call at a time, statements may fail
NextScoreSeq ==
    \/ Disconnect
    \/ Connect
    \/ idleTimeout
    \/ \E p \in Procs, u \in Users, d \in DeltaInputs :
           Serial(p) /\ updateStart(p, u, "GAME_COMPLETE", d)
    \/ \E p \in Procs : updateScore(p)

SpecScoreSeq == Init /\ [][NextScoreSeq]_vars

\* initializeSampleData: the ranked set after POST /api/leaderboard/init
sampleUsers == [user1 |-> 1500, user2 |-> 1400, user3 |-> 1300, user4 |-> 1200,
                user5 |-> 1100, user6 |-> 1000, user7 |-> 900, user8 |-> 800,
                user9 |-> 700, user10 |-> 600]

SampleDeltas == {1, 1000}

\* one call at a time on the sample leaderboard, the database answers every statement
NextSample ==
    \/ \E p \in Procs, u \in Users, d \in SampleDeltas :
           Serial(p) /\ updateStart(p, u, "GAME_COMPLETE", d)
    \/ \E p \in Procs : updateScore(p)

SpecSample == InitState(MaxFaults, 0, sampleUsers) /\ [][NextSample]_vars

(***************************************************************************)
(* Specification of the update endpoint: concurrent requests               *)
(***************************************************************************)
RouteDeltaInputs == {0, 1, 1001}

\* the requests sent: a well-formed one and those that differ from it in one field
GoodRequest ==
    [userId |-> "user1", actionType |-> "GAME_COMPLETE", scoreIncrement |-> 1, token |-> 1,
     ipOver |-> FALSE]
RouteRequests ==
    {[GoodRequest EXCEPT !.userId = u] : u \in UserIds}
        \cup {[GoodRequest EXCEPT !.actionType = a] : a \in ActionTypeInputs}
        \cup {[GoodRequest EXCEPT !.scoreIncrement = d] : d \in RouteDeltaInputs}
        \cup {[GoodRequest EXCEPT !.token = t] : t \in TokenInputs}
        \cup {[GoodRequest EXCEPT !.ipOver = b] : b \in BOOLEAN}

NextRoute ==
    \/ Disconnect
    \/ Connect
    \/ \E u \in Users, a \in ActionTypeInputs : generateActionToken(u, a)
    \/ \E p \in Procs, r \in RouteRequests :
           routeStart(p, r.userId, r.actionType, r.scoreIncrement, r.token, r.ipOver)
    \/ \E p \in Procs : authGet(p)
    \/ \E p \in Procs : validateGet(p)
    \/ \E p \in Procs : validateSetex(p)
    \/ \E p \in Procs : rateGet(p)
    \/ \E p \in Procs : rateWrite(p)
    \/ \E p \in Procs : updateScore(p)

SpecRoute == InitRoute /\ [][NextRoute]_vars

\* one request at a time, statements may fail
NextRouteSeq ==
    \/ Disconnect
    \/ Connect
    \/ \E u \in Users, a \in ActionTypeInputs : generateActionToken(u, a)
    \/ \E p \in Procs, r \in RouteRequests :
           /\ Serial(p)
           /\ routeStart(p, r.userId, r.actionType, r.scoreIncrement, r.token, r.ipOver)
    \/ \E p \in Procs : authGet(p)
    \/ \E p \in Procs : validateGet(p)
    \/ \E p \in Procs : validateSetex(p)
    \/ \E p \in Procs : rateGet(p)
    \/ \E p \in Procs : rateWrite(p)
    \/ \E p \in Procs : updateScore(p)

SpecRouteSeq == (\E counted \in {0, maxRequests} : InitWith(0, counted)) /\ [][NextRouteSeq]_vars

(***************************************************************************)
(* Specification of the leaderboard: score updates, upserts, removals and  *)
(* readers of the top lists, one call at a time                            *)
(***************************************************************************)
BoardStep == 15
BoardMaxTime == 45
BoardScores == {1, 2}
BoardDeltas == {1}

NextBoard ==
    \/ \E p \in Procs, u \in Users, d \in BoardDeltas :
           Serial(p) /\ updateStart(p, u, "GAME_COMPLETE", d)
    \/ \E p \in Procs : updateScore(p)
    \/ \E p \in Procs, u \in Users, n \in BoardScores : Serial(p) /\ upsertStart(p, u, n)
    \/ \E p \in Procs : lbZadd(p)
    \/ \E p \in Procs, u \in Users : Serial(p) /\ removeStart(p, u)
    \/ \E p \in Procs : rmDel(p)
    \/ \E p \in Procs : invDel(p)
    \/ \E p \in Procs, k \in BoardLimits : Serial(p) /\ getTopStart(p, k)
    \/ \E p \in Procs : gtGet(p)
    \/ \E p \in Procs : gtRange(p)
    \/ \E p \in Procs : gtCard(p)
    \/ \E p \in Procs : gtSetex(p)

SpecBoard == InitNoFaults /\ [][NextBoard]_vars

\* readers of the top lists next to upserts, in any interleaving, under the clock
ClockLimits == {2, 10}

NextBoardClock ==
    \/ Tick(BoardStep, BoardMaxTime)
    \/ \E p \in Procs, u \in RateUsers, n \in BoardDeltas : upsertStart(p, u, n)
    \/ \E p \in Procs : lbZadd(p)
    \/ \E p \in Procs : invDel(p)
    \/ \E p \in Procs, k \in ClockLimits : getTopStart(p, k)
    \/ \E p \in Procs : gtGet(p)
    \/ \E p \in Procs : gtRange(p)
    \/ \E p \in Procs : gtCard(p)
    \/ \E p \in Procs : gtSetex(p)

SpecBoardClock == InitNoFaults /\ [][NextBoardClock]_vars

\* the statistics of the ranked set, empty at first or holding the sample users
NextStats ==
    \/ Disconnect
    \/ Connect
    \/ \E p \in Procs, u \in Users, x \in BoardScores : Serial(p) /\ upsertStart(p, u, x)
    \/ \E p \in Procs : lbZadd(p)
    \/ \E p \in Procs : invDel(p)
    \/ \E p \in Procs : Serial(p) /\ statsStart(p)
    \/ \E p \in Procs : stCard(p)
    \/ \E p \in Procs : stTop(p)
    \/ \E p \in Procs : stAll(p)

SpecStats ==
    /\ \E board \in {[u \in Users |-> NoMember], sampleUsers} : InitState(MaxFaults, 0, board)
    /\ [][NextStats]_vars

(***************************************************************************)
(* Properties of the score update                                          *)
(***************************************************************************)
UpdateDone(p) == pc[p] = "done" /\ res[p].kind = "update"

\* the completed updateScore calls for a user
Calls(userId) == {p \in Procs : UpdateDone(p) /\ arg[p].userId = userId}

RECURSIVE SumDeltas(_)
SumDeltas(S) ==
    IF S = {} THEN 0
    ELSE LET p == CHOOSE q \in S : TRUE IN arg[p].scoreIncrement + SumDeltas(S \ {p})

DurableScore(userId) == IF user_scores[userId] = NoRow THEN 0 ELSE user_scores[userId]

\* C1: when every updateScore call for a fresh user has returned success, whatever the
\* interleaving of the calls, the user's durable score is the sum of their deltas
C1_NoLostUpdate ==
    \A u \in Users :
        ((\A p \in Procs : ~InFlight(p)) /\ (\A p \in Calls(u) : res[p].ok))
            => DurableScore(u) = SumDeltas(Calls(u))

(***************************************************************************)
(* Properties of the token validator                                       *)
(***************************************************************************)
ValidateDone(p) == pc[p] = "done" /\ res[p].kind = "validate"

\* both calls passed the signature, expiry and owner checks of the same token while
\* the other was in flight, and neither met a Redis error
Raced(p, q) ==
    /\ p # q
    /\ ValidateDone(p) /\ ValidateDone(q)
    /\ res[p].overlap /\ res[q].overlap
    /\ arg[p].token = arg[q].token /\ arg[p].userId = arg[q].userId
    /\ tokens[arg[p].token].actionType \in validActionTypes
    /\ res[p].cause # "redis" /\ res[q].cause # "redis"

\* C2: of two concurrent validations of the same valid token, exactly one returns
\* valid and the other is rejected as already used
C2_SingleWinner ==
    \A p, q \in Procs :
        Raced(p, q) =>
            \/ res[p].ok /\ ~res[q].ok /\ res[q].cause = "used"
            \/ res[q].ok /\ ~res[p].ok /\ res[p].cause = "used"

\* a validation that began now would return valid
Acceptable(n) == jwtVerify(n) = "ok" /\ ~tokenKey[n].present

\* C3: once a validation has returned valid for a token, no call that begins later
\* returns valid for it, and the nonce is never acceptable again: not while the mark
\* is live, not after its time to live
C3_NoReplay ==
    /\ replayed = {}
    /\ \A n \in Nonces : validBy[n] # {} => ~Acceptable(n)

\* a consumed token is presented again after its mark has expired, and is rejected
C3_Witness ==
    \E p \in Procs :
        /\ ValidateDone(p) /\ ~res[p].ok /\ res[p].cause = "expired"
        /\ arg[p].token \in Nonces
        /\ validBy[arg[p].token] # {} /\ ~tokenKey[arg[p].token].present

(***************************************************************************)
(* Properties of the rate limiter                                          *)
(***************************************************************************)
\* C4: sequential calls: at most maxRequests are Allowed inside one window, so the
\* call after the tenth inside the window is Denied
C4_WindowCap == \A u \in Users : winCount[u] <= maxRequests

\* ten calls were allowed in the live window and the next one was denied
C4_Witness ==
    \E p \in Procs :
        /\ pc[p] = "done" /\ res[p].kind = "rate" /\ res[p].cause = "denied"
        /\ winCount[arg[p].userId] = maxRequests
        /\ ~WindowOver(winStart[arg[p].userId], now)

\* C5: once windowSeconds have passed since the first counted request of a window,
\* the next call is Allowed
C5_WindowReset == ~lateDenied

\* C6: concurrent calls: no window has more than maxRequests Allowed results, and
\* the stored counter does not fall short of them
C6_AtomicCount ==
    \A u \in Users :
        /\ winCount[u] <= maxRequests
        /\ ((\A p \in Procs : ~InFlight(p)) /\ rateKey[u].present)
              => currentCountOf(rateKey[u]) >= winCount[u]

(***************************************************************************)
(* Properties of the audit log                                             *)
(***************************************************************************)
\* audit rows written for a request, committed or in the open transaction
Entries(p) == {e \in audit_log \cup session.audit : e.req = p}

\* the request came through the middleware to the update itself: to the body
\* validation, the token, the user's rate limit or updateScore
Attempted(p) ==
    /\ pc[p] = "done" /\ res[p].kind = "http"
    /\ \/ res[p].status \in {200, 400, 422}
       \/ res[p].status = 429 /\ res[p].cause = "user"

\* C7: every attempt that reaches the update endpoint has exactly one audit entry,
\* whatever its outcome
C7_OneAuditEntry == \A p \in Procs : Attempted(p) => Cardinality(Entries(p)) = 1

\* C8: the score write of a call is durable exactly when its one success audit entry
\* is durable
C8_AtomicUnit ==
    \A p \in Procs :
        LET rows == {e \in audit_log : e.req = p /\ e.success} IN
        /\ p \in durableWrites <=> rows # {}
        /\ Cardinality(rows) <= 1

InvalidDelta(scoreIncrement) == scoreIncrement <= 0 \/ scoreIncrement > MAX_SCORE_INCREMENT

\* C9: a request rejected for its invalid delta leaves exactly one audit entry, with
\* success = false and the invalid-delta reason, and writes no score
C9_InvalidDeltaAudited ==
    \A p \in Procs :
        (pc[p] = "done" /\ res[p].kind = "http" /\ res[p].status = 400
         /\ InvalidDelta(arg[p].scoreIncrement))
            => /\ Cardinality(Entries(p)) = 1
               /\ \A e \in Entries(p) :
                      ~e.success /\ e.errorMessage = ErrorCodes.INVALID_SCORE_INCREMENT
               /\ p \notin durableWrites /\ ~res[p].zadded

\* the first error of the call came from BEGIN, the score INSERT or COMMIT
PersistenceFailed(p) ==
    /\ UpdateDone(p)
    /\ res[p].first \in {DbError("BEGIN"), DbError("INSERT"), DbError("COMMIT")}

\* C10: a call whose durable persistence failed reports failure, has not written the
\* ranked set and has left a failure audit entry
C10_PersistenceFailure ==
    \A p \in Procs :
        PersistenceFailed(p)
            => /\ ~res[p].ok
               /\ ~res[p].zadded
               /\ \E e \in Entries(p) : ~e.success

(***************************************************************************)
(* Properties of the notifications                                         *)
(***************************************************************************)
\* the first error the call met was thrown while it published its events
NotifyFailed(p) == UpdateDone(p) /\ res[p].first = EmitError

\* C11: a call whose publishing of the personal or of the leaderboard event threw,
\* after the commit, still returns success and leaves no failure audit entry
C11_NotifyFailureHarmless ==
    \A p \in Procs :
        NotifyFailed(p) => res[p].ok /\ \A e \in Entries(p) : e.success

\* the messages a call has sent, and its personal ones
Sent(p) == {m \in emitted : m.req = p}
Personal(p) == {m \in Sent(p) : m.type = "score_update"}

\* C19: a call that returned success has sent exactly one personal event, to the room
\* of the updated actor, with the new score and the new rank it reports; a call that
\* returned failure has sent no event
C19_PersonalEvent ==
    \A p \in Procs :
        UpdateDone(p) =>
            IF res[p].ok
            THEN /\ Cardinality(Personal(p)) = 1
                 /\ \A m \in Personal(p) :
                        /\ m.room = "user:" \o arg[p].userId
                        /\ m.userId = arg[p].userId
                        /\ m.newScore = res[p].newScore
                        /\ m.newRank = res[p].newRank
                        /\ m.scoreIncrease = arg[p].scoreIncrement
            ELSE Sent(p) = {}

(***************************************************************************)
(* Properties of the result of updateScore                                 *)
(***************************************************************************)
\* a collaborator call of the update failed: res.first is the first error it met
CollaboratorFailed(p) ==
    /\ UpdateDone(p)
    /\ res[p].first \notin {"", ErrorCodes.INVALID_SCORE_INCREMENT, EmitError}

\* C12: an update one of whose collaborator calls failed completes with a result
\* value, success = false, that carries the first error; it does not raise, and no
\* later failure replaces that error
C12_ResultCarriesReason ==
    \A p \in Procs :
        CollaboratorFailed(p)
            => /\ res[p].cause # "threw"
               /\ ~res[p].ok
               /\ res[p].error = res[p].first

(***************************************************************************)
(* Properties of the ranked set and of the top lists                       *)
(***************************************************************************)
\* the other actors whose score is strictly greater
Above(userId) ==
    Cardinality({v \in Users \ {userId} :
                    leaderboard[v] # NoMember /\ leaderboard[v] > leaderboard[userId]})

\* C13: in every state of the ranked set, the rank getUserRank and getUserPosition
\* report for a member is the number of other actors with a strictly greater score,
\* counted from 0, also when scores are equal
C13_RankCountsGreater ==
    \A u \in Users :
        leaderboard[u] # NoMember
            => /\ getUserRank(u) = Above(u)
               /\ getUserPosition(u).rank = Above(u)

\* what getTopUsers(k) returns when it is called in this state and runs alone
Served(k) ==
    IF topCache[k].present THEN JSONparse(topCache[k].val).topUsers
    ELSE topUsersOf(zrevrange(0, k - 1))

\* an entry as res.json sends it: actor and score, NaN written as null
Wire(e) == <<e.userId, IF e.currentScore = NaN THEN JsonNull ELSE e.currentScore>>

IsPrefix(a, b) == Len(a) <= Len(b) /\ \A i \in 1..Len(a) : Wire(a[i]) = Wire(b[i])

\* a >= b on JavaScript numbers: false for NaN, null counts as 0
Geq(a, b) ==
    /\ a # NaN /\ b # NaN
    /\ (IF a = JsonNull THEN 0 ELSE a) >= (IF b = JsonNull THEN 0 ELSE b)

\* C14: in every state, whichever snapshots are cached, getTopUsers(k) has at most k
\* entries, in non-increasing score order, and they are a prefix of getTopUsers(k + 1)
C14_TopPrefix ==
    \A k \in BoardLimits :
        /\ Len(Served(k)) <= k
        /\ \A i \in 1..(Len(Served(k)) - 1) :
               Geq(Served(k)[i].currentScore, Served(k)[i + 1].currentScore)
        /\ (k + 1) \in BoardLimits => IsPrefix(Served(k), Served(k + 1))

\* the member at place i of the ranked set, counted from 1
Ranked(i) == CHOOSE v \in Users : leaderboard[v] # NoMember /\ zrank(v) = i - 1

\* the actors and scores of the first n places of the ranked set
IsTop(topUsers, n) ==
    /\ Len(topUsers) = (IF n < zcard THEN n ELSE zcard)
    /\ \A i \in 1..Len(topUsers) :
           /\ topUsers[i].userId = <<Ranked(i)>>
           /\ topUsers[i].currentScore = leaderboard[Ranked(i)]

\* C15: a getTopUsers(n) call that found no cached snapshot returns min(n, total)
\* entries, the i-th being the actor at place i of the ranked set with its score
C15_TopFromRankedSet ==
    [][\A p \in Procs :
           (pc[p] = "gt_setex" /\ pc'[p] = "done" /\ res'[p].cause = "miss")
               => IsTop(res[p].top.topUsers, res[p].top.limit)']_vars

TopDone(p) == pc[p] = "done" /\ res[p].kind = "top"

\* C16: a getTopUsers call that began after an updateScore had returned success does
\* not answer with a cached snapshot that was read before that update wrote the
\* ranked set
C16_UpdateInvalidates ==
    \A p \in Procs :
        (TopDone(p) /\ res[p].cause = "hit") => res[p].top.seen >= res[p].top.after

\* C17: whatever the limit and the interleaving of readers and updates, the ranked-set
\* state a getTopUsers call returns was read at most LEADERBOARD_CACHE_TTL seconds
\* before the call returns
C17_BoundedStaleness ==
    \A p \in Procs : (TopDone(p) /\ res[p].ok) => res[p].top.age <= LEADERBOARD_CACHE_TTL

(***************************************************************************)
(* Properties of the update endpoint                                       *)
(***************************************************************************)
\* a step of a request whose delta is out of bounds
InvalidDeltaStep(p) ==
    /\ arg'[p].entry = "route" /\ InvalidDelta(arg'[p].scoreIncrement)
    /\ <<pc[p], loc[p]>> # <<pc'[p], loc'[p]>>

\* the request was denied by the user's rate limiter
RateDenied(p) ==
    pc[p] = "done" /\ res[p].kind = "http" /\ res[p].status = 429 /\ res[p].cause = "user"

\* C18: the delta is checked before the rate limiter and the rate limiter before the
\* token: no step of a request with an out-of-bounds delta changes a rate counter or
\* a token mark, and a request the rate limiter denied has not consumed its token
C18_PreconditionOrder ==
    /\ [][\A p \in Procs : InvalidDeltaStep(p) => UNCHANGED <<rateKey, tokenKey>>]_vars
    /\ [](\A p \in Procs : RateDenied(p) => \A n \in Nonces : p \notin validBy[n])

(***************************************************************************)
(* Properties of the leaderboard broadcast                                 *)
(***************************************************************************)
\* C20: a leaderboard-changed event is sent only by an update whose write changed the
\* members or the order of the first ten places
C20_BroadcastOnlyOnChange ==
    \A m \in emitted : m.type = "leaderboard_update" => m.moved

\* C21: a successful update whose write changed the members or the order of the first
\* ten places has sent a leaderboard-changed event, the tenth place included
C21_BroadcastOnChange ==
    [][\A p \in Procs :
          (pc[p] = "us_rank_new" /\ loc[p].moved /\ UpdateDone(p)' /\ res'[p].ok)
              => \E m \in emitted' : m.type = "leaderboard_update" /\ m.req = p]_vars

(***************************************************************************)
(* Properties of the rejections of validateActionToken                     *)
(***************************************************************************)
\* the rejection reasons the validator tells apart by the branch it takes
RejectionReasons == {"malformed", "expired", "mismatch", "used", "actionType"}

Rejected(p) == ValidateDone(p) /\ ~res[p].ok /\ res[p].cause \in RejectionReasons

\* C22: two rejections for different reasons (malformed or unsigned token, expired token,
\* actor mismatch, used nonce, unknown action kind) carry different error values
C22_DistinctRejections ==
    \A p, q \in Procs :
        (Rejected(p) /\ Rejected(q) /\ res[p].cause # res[q].cause)
            => res[p].error # res[q].error

\* the nonces marked used
UsedNonces == {n \in Nonces : tokenKey[n].present}

\* C23: a call of validateActionToken that returns invalid for actor mismatch, expiry,
\* a used nonce or an unknown action kind leaves the set of used nonces as it was
C23_InvalidLeavesNonces ==
    [][\A p \in Procs :
          (~ValidateDone(p) /\ Rejected(p)') => UsedNonces' = UsedNonces]_vars

(***************************************************************************)
(* Properties of the responses of POST /api/scores/user/:userId            *)
(***************************************************************************)
Responded(p) == pc[p] = "done" /\ res[p].kind = "http"

\* why the request failed, from the branch that answered it and the first error met
FailureKind(p) ==
    IF res[p].cause = "body" /\ InvalidDelta(arg[p].scoreIncrement) THEN "InvalidDelta"
    ELSE IF res[p].cause = "ip" \/ (res[p].cause = "user" /\ length[arg[p].userId] >= 3)
         THEN "RateLimited"
    ELSE IF res[p].first = "" /\ res[p].cause \in RejectionReasons \cup {"redis"}
         THEN "TokenRejected"
    ELSE IF res[p].first \in {DbError("BEGIN"), DbError("INSERT"), DbError("COMMIT")}
         THEN "PersistenceFailure"
    ELSE "other"

\* what the client sees: the HTTP status and error.code
Response(p) == <<res[p].status, res[p].error>>

Quiescent == \A p \in Procs : ~InFlight(p)

\* C25: with no update in flight, an actor is a member of the ranked set exactly if a
\* score mutation of the actor has been committed to the durable store
C25_MemberIffMutated ==
    Quiescent => \A u \in Users : leaderboard[u] # NoMember <=> user_scores[u] # NoRow

\* C26: with no update in flight, the score the ranked set holds for a member is the
\* actor's durable score
C26_IndexFaithful ==
    Quiescent => \A u \in Users :
                     leaderboard[u] # NoMember => leaderboard[u] = DurableScore(u)

(***************************************************************************)
(* The end-to-end scenario of POST /api/scores/user/:userId                *)
(***************************************************************************)
\* the request of p is answered 200 for an actor whose score was 0
FreshSuccess(p) ==
    /\ arg[p].entry = "route" /\ pc[p] = "us_rank_new" /\ loc[p].currentScore = 0
    /\ Responded(p)' /\ res'[p].status = 200

\* the validator leaves a request whose token had been accepted before the request began
Resubmitted(p) ==
    /\ arg[p].entry = "route" /\ pc[p] \in {"v_get", "v_setex"} /\ loc[p].afterConsumed
    /\ pc'[p] # pc[p]

MemberScores ==
    [i \in 1..zcard |->
        leaderboard[CHOOSE v \in Members : leaderboard[v] # NoMember /\ zrank(v) = i - 1]]

RECURSIVE Total(_)
Total(scores) == IF scores = <<>> THEN 0 ELSE Head(scores) + Total(Tail(scores))

\* number of members, maximum, mean rounded to the nearest integer, median (in halves)
TrueStats ==
    LET n == zcard
        S == MemberScores
    IN  IF n = 0 THEN NoStats
        ELSE [totalUsers |-> n,
              highestScore |-> S[1],
              averageScore |-> (2 * Total(S) + n) \div (2 * n),
              medianScore |-> IF n % 2 = 1 THEN 2 * S[(n + 1) \div 2]
                              ELSE S[n \div 2] + S[n \div 2 + 1]]

\* getLeaderboardStats returns to p
StatsReturns(p) ==
    /\ pc[p] \in {"st_card", "st_all"} /\ pc'[p] = "done" /\ res'[p].cause # "threw"

\* C28: getLeaderboardStats reports the number of ranked actors, their maximum score,
\* their rounded mean and their median, and zeros for the empty set
C28_StatsTrue ==
    [][\A p \in Procs : StatsReturns(p) => res'[p].stats = TrueStats]_vars

(***************************************************************************)
(* Properties of removeUser                                                *)
(***************************************************************************)
\* removeUser returns to p without an error
RemoveReturns(p) ==
    /\ pc[p] = "inv_del" /\ loc[p].ret = "remove" /\ pc'[p] = "done" /\ res'[p].ok

\* the actor is named by an entry of a list of getTopUsers or getLeaderboardAroundUser
Listed(userId, users) == \E j \in 1..Len(users) : Head(users[j].userId) = userId

\* the ranked actors other than userId that are placed before v
Before(v, userId) ==
    {w \in Members \ {userId, v} : leaderboard[w] # NoMember /\ zrank(w) < zrank(v)}

\* what the queries answer once userId has been removed
Gone(userId) ==
    /\ getUserPosition(userId).rank = null
    /\ ~Listed(userId, topUsersOf(zrevrange(0, 9)))
    /\ \A v \in Members : ~Listed(userId, getLeaderboardAroundUser(v, 5))
    /\ \A v \in Members \ {userId} :
           leaderboard[v] # NoMember
               => getUserPosition(v).rank = Cardinality(Before(v, userId)) + 1

\* C29: when removeUser(actor) has returned the actor is in no list of getTopUsers or
\* getLeaderboardAroundUser, getUserPosition reports no rank for it, and the rank of
\* every other actor counts the remaining actors placed before it (ranks from 1, as
\* getUserPosition reports them)
C29_RemovedIsGone ==
    [][\A p \in Procs : RemoveReturns(p) => Gone(arg[p].userId)']_vars

(***************************************************************************)
(* Properties of the three sums                                            *)
(***************************************************************************)
SumDone(p) == pc[p] = "done" /\ res[p].kind = "sum"

C32_FailureNoEffect ==
    \A p \in Procs : (UpdateDone(p) /\ ~res[p].ok) => p \notin durableWrites

(***************************************************************************)
(* Properties of the score cache                                           *)
(***************************************************************************)
\* C33: in every state with no updateScore or getCurrentScore call in flight, a
\* cached score present for an actor equals the actor's durable score
C33_CacheCoherent ==
    Quiescent
        => \A u \in Users :
               scoreCache[u].present => parseInt(scoreCache[u].val) = DurableScore(u)

(***************************************************************************)
(* Properties of the durable scores                                        *)
(***************************************************************************)
\* C34: every durable write for an actor stores a value greater than the value it
\* replaces, and every stored score is non-negative
C34_NeverDecreases ==
    [][\A u \in Users :
           /\ user_scores'[u] # NoRow => user_scores'[u] >= 0
           /\ user_scores'[u] # user_scores[u] => DurableScore(u)' > DurableScore(u)]_vars

(***************************************************************************)
(* Specification of the update endpoint with two action kinds: tokens are  *)
(* issued for either kind and requests name either kind, one at a time     *)
(***************************************************************************)
ActionKinds == {"GAME_COMPLETE", "LEVEL_COMPLETE"}

NextKinds ==
    \/ Disconnect
    \/ Connect
    \/ \E u \in Users, a \in ActionKinds : generateActionToken(u, a)
    \/ \E p \in Procs, u \in Users, a \in ActionKinds :
           /\ Serial(p)
           /\ routeStart(p, u, a, GoodRequest.scoreIncrement, GoodRequest.token, FALSE)
    \/ \E p \in Procs : authGet(p)
    \/ \E p \in Procs : validateGet(p)
    \/ \E p \in Procs : validateSetex(p)
    \/ \E p \in Procs : rateGet(p)
    \/ \E p \in Procs : rateWrite(p)
    \/ \E p \in Procs : updateScore(p)

SpecKinds == InitWith(0, 0) /\ [][NextKinds]_vars

\* C35: a score update is applied only if the action kind inside the validated token
\* equals the action kind of the request the token accompanies
C35_TokenForItsAction ==
    \A p \in Procs :
        (arg[p].entry = "route" /\ p \in durableWrites)
            => tokens[arg[p].token].actionType = arg[p].actionType

(***************************************************************************)
(* Properties across actors                                                *)
(***************************************************************************)
\* the stores of actor b that a step leaves as they were
Untouched_(b) ==
    /\ user_scores'[b] = user_scores[b]
    /\ scoreCache'[b] = scoreCache[b]
    /\ leaderboard'[b] = leaderboard[b]
    /\ rateKey'[b] = rateKey[b]
    /\ \A n \in Nonces : tokens[n].userId = b => tokenKey'[n] = tokenKey[n]

\* C40: every step of an update for actor a, in any interleaving with other calls,
\* leaves the durable score, the cached score, the ranked-set score, the rate-limit
\* counter and the used nonces of every other actor b unchanged
C40_CrossActor ==
    [][\A p \in Procs :
           pc'[p] # pc[p] => \A b \in Users \ {arg'[p].userId} : Untouched_(b)]_vars

(***************************************************************************)
(* WebSocketManager                                                        *)
(***************************************************************************)
\* the userId of an 'authenticate' event: the string the client sends
SocketUserIds == Users \cup {""}

undefined == "undefined"
\* socket ids one user's list holds before the clients stop authenticating as that user
MaxListed == 2

\* Map.get, Map.set, Map.delete
mapGet(map, key) == IF key \in DOMAIN map THEN map[key] ELSE undefined
mapSet(map, key, value) ==
    [k \in DOMAIN map \cup {key} |-> IF k = key THEN value ELSE map[k]]
mapDelete(map, key) == [k \in DOMAIN map \ {key} |-> map[k]]

\* if (userId): an empty string is falsy
truthy(userId) == userId # undefined /\ userId # ""

\* Array.indexOf (0: not found), Array.splice(index, 1)
indexOf(list, x) ==
    IF \E i \in 1..Len(list) : list[i] = x
    THEN CHOOSE i \in 1..Len(list) : list[i] = x /\ \A j \in 1..(i - 1) : list[j] # x
    ELSE 0
splice(list, index) == SubSeq(list, 1, index - 1) \o SubSeq(list, index + 1, Len(list))

\* connectedUsers after removeSocketFromUser(userId, socketId)
removeSocketFromUser(users, userId, socketId) ==
    IF userId \notin DOMAIN users THEN users
    ELSE LET index == indexOf(users[userId], socketId)
             userSockets == IF index > 0 THEN splice(users[userId], index)
                            ELSE users[userId]
         IN  IF Len(userSockets) = 0 THEN mapDelete(users, userId)
             ELSE mapSet(users, userId, userSockets)

\* io.on('connection', ...)
connection(s) ==
    /\ ioSockets[s] = "new"
    /\ ioSockets' = [ioSockets EXCEPT ![s] = "open"]
    /\ UNCHANGED <<now, isConnected, authVars, procVars, scoreVars, ioRooms, connectedUsers,
                   socketToUser, received>>

\* socket.on('authenticate', data => this.handleUserAuthentication(socket, data.userId))
handleUserAuthentication(s, userId) ==
    /\ ioSockets[s] = "open"
    /\ userId \in DOMAIN connectedUsers => Len(connectedUsers[userId]) < MaxListed
    /\ LET existingUserId == mapGet(socketToUser, s)
           removed == IF truthy(existingUserId)
                      THEN removeSocketFromUser(connectedUsers, existingUserId, s)
                      ELSE connectedUsers
           listed == IF userId \in DOMAIN removed THEN removed
                     ELSE mapSet(removed, userId, <<>>)
       IN  /\ socketToUser' = mapSet(socketToUser, s, userId)
           /\ connectedUsers' = mapSet(listed, userId, Append(listed[userId], s))
    /\ ioRooms' = [ioRooms EXCEPT ![s] = @ \cup {"user:" \o userId}]
    /\ UNCHANGED <<now, isConnected, authVars, procVars, scoreVars, ioSockets, received>>

\* the maps once a socket that is in socketToUser has been dropped
dropSocket(users, sockets, s) ==
    LET userId == mapGet(sockets, s) IN
    IF truthy(userId)
    THEN <<removeSocketFromUser(users, userId, s), mapDelete(sockets, s)>>
    ELSE <<users, sockets>>

\* socket.on('disconnect', ...): Socket.IO has taken the socket out of its rooms
handleUserDisconnection(s) ==
    /\ ioSockets[s] = "open"
    /\ ioSockets' = [ioSockets EXCEPT ![s] = "closed"]
    /\ ioRooms' = [ioRooms EXCEPT ![s] = {}]
    /\ connectedUsers' = dropSocket(connectedUsers, socketToUser, s)[1]
    /\ socketToUser' = dropSocket(connectedUsers, socketToUser, s)[2]
    /\ UNCHANGED <<now, isConnected, authVars, procVars, scoreVars, received>>

RECURSIVE dropAll(_, _, _)
dropAll(users, sockets, socketsToRemove) ==
    IF socketsToRemove = {} THEN <<users, sockets>>
    ELSE LET s == CHOOSE x \in socketsToRemove : TRUE
             maps == dropSocket(users, sockets, s)
         IN  dropAll(maps[1], maps[2], socketsToRemove \ {s})

\* setInterval(() => this.cleanupStaleConnections(), 60000)
cleanupStaleConnections ==
    LET socketsToRemove == {s \in DOMAIN socketToUser : ioSockets[s] # "open"}
        maps == dropAll(connectedUsers, socketToUser, socketsToRemove)
    IN  /\ connectedUsers' = maps[1]
        /\ socketToUser' = maps[2]
        /\ UNCHANGED <<now, isConnected, authVars, procVars, scoreVars, ioSockets, ioRooms,
                       received>>

\* this.io.to(`user:${userId}`).emit('score_update', message): Socket.IO delivers the
\* message to every socket in the room
scoreUpdateEmit(userId) ==
    /\ received' = [s \in Sockets |->
                      IF ("user:" \o userId) \in ioRooms[s]
                      THEN received[s] \cup {[userId |-> userId,
                                              to |-> mapGet(socketToUser, s)]}
                      ELSE received[s]]
    /\ UNCHANGED <<now, isConnected, authVars, procVars, scoreVars, ioSockets, ioRooms,
                   connectedUsers, socketToUser>>

isUserOnline(userId) == userId \in DOMAIN connectedUsers /\ Len(connectedUsers[userId]) > 0

(***************************************************************************)
(* Specification of the WebSocket sessions                                 *)
(***************************************************************************)
SocketEvents(userIds) ==
    \/ \E s \in Sockets : connection(s)
    \/ \E s \in Sockets, u \in userIds : handleUserAuthentication(s, u)
    \/ \E s \in Sockets : handleUserDisconnection(s)
    \/ cleanupStaleConnections
    \/ \E u \in Users : scoreUpdateEmit(u)

NextSocket == SocketEvents(SocketUserIds)

SpecSocket == Init /\ [][NextSocket]_vars

\* every 'authenticate' event carries a non-empty userId
NextSocketNamed == SocketEvents(Users)

SpecSocketNamed == Init /\ [][NextSocketNamed]_vars

(***************************************************************************)
(* Properties of the WebSocket sessions                                    *)
(***************************************************************************)
ListedUnder(s, u) ==
    u \in DOMAIN connectedUsers /\ \E i \in 1..Len(connectedUsers[u]) : connectedUsers[u][i] = s

MappedTo(s, u) == s \in DOMAIN socketToUser /\ socketToUser[s] = u

\* C36: a socket id is listed under user u in connectedUsers exactly when socketToUser
\* maps it to u, each socket id is listed at most once, no user is kept with an empty
\* list, and isUserOnline(u) holds exactly when some socket is mapped to u
C36_MapsConsistent ==
    /\ \A s \in Sockets, u \in SocketUserIds : ListedUnder(s, u) <=> MappedTo(s, u)
    /\ \A u \in DOMAIN connectedUsers :
           /\ connectedUsers[u] # <<>>
           /\ \A i, j \in 1..Len(connectedUsers[u]) :
                  connectedUsers[u][i] = connectedUsers[u][j] => i = j
    /\ \A u \in SocketUserIds : isUserOnline(u) <=> \E s \in Sockets : MappedTo(s, u)

\* C37: a personal score_update for user u is delivered only to sockets that are
\* authenticated as u when it is sent
C37_PersonalUpdates ==
    \A s \in Sockets : \A m \in received[s] : m.to = m.userId

(***************************************************************************)
(* Specification of the leaderboard endpoint: requests with any limit on   *)
(* the sample leaderboard, one at a time                                   *)
(***************************************************************************)
QueryLimits == {<<>>, <<-2>>, <<-1>>, <<0>>, <<1>>, <<50>>, <<51>>}

NextLimit ==
    \/ Disconnect
    \/ Connect
    \/ \E p \in Procs, q \in QueryLimits : Serial(p) /\ leaderboardGet(p, q)
    \/ \E p \in Procs : gtGet(p)
    \/ \E p \in Procs : gtRange(p)
    \/ \E p \in Procs : gtCard(p)
    \/ \E p \in Procs : gtSetex(p)

SpecLimit == InitState(0, 0, sampleUsers) /\ [][NextLimit]_vars

\* ranked sets of up to this many actors are considered
MaxCard == 60

\* the actors a range read of (0, stop) covers in a ranked set of card actors
covered(card, stop) == IF rangeLast(card, stop) < 0 THEN 0 ELSE rangeLast(card, stop) + 1

\* C38: whatever the limit of the query, the request is rejected with INVALID_LIMIT or
\* the range it reads from the ranked set covers at most 50 actors, however many actors
\* the ranked set holds
C38_AtMostFifty ==
    \A p \in Procs :
        (arg[p].entry = "leaderboard" /\ pc[p] = "gt_range")
            => \A card \in 0..MaxCard : covered(card, loc[p].top.limit - 1) <= maxLimit

(***************************************************************************)
(* The three sums in JavaScript (problem 1), and both sets of              *)
(* implementations on any integer                                          *)
(***************************************************************************)
\* if (n <= 0) return 0; then the loop
js_sum_to_n_a(n) == IF n <= 0 THEN 0 ELSE forLoop(1, n, 0)

\* if (n <= 0) return 0; return (n * (n + 1)) / 2
js_sum_to_n_b(n) == IF n <= 0 THEN 0 ELSE (n * (n + 1)) \div 2

RECURSIVE js_sum_to_n_c(_)
\* if (n <= 0) return 0; if (n === 1) return 1; return n + sum_to_n_c(n - 1)
js_sum_to_n_c(n) == IF n <= 0 THEN 0 ELSE IF n = 1 THEN 1 ELSE n + js_sum_to_n_c(n - 1)

\* the six implementations are called with input n: the TypeScript results, then the
\* JavaScript results
callAll(p, n) ==
    /\ pc[p] \in {"idle", "done"}
    /\ arg' = [arg EXCEPT ![p] = [NoArg EXCEPT !.entry = "sums", !.n = n]]
    /\ Return(p, [NoRes EXCEPT !.kind = "sums", !.ok = TRUE,
                               !.sums = <<sum_to_n_a(n), sum_to_n_b(n), sum_to_n_c(n),
                                          js_sum_to_n_a(n), js_sum_to_n_b(n),
                                          js_sum_to_n_c(n)>>])
    /\ UNCHANGED <<wsVars, now, isConnected, authVars, scoreVars>>

\* the inputs run from -MaxAbsN to MaxAbsN
MaxAbsN == 12

NextSumAny == \E p \in Procs, n \in (-MaxAbsN)..MaxAbsN : callAll(p, n)

SpecSumAny == InitNoFaults /\ [][NextSumAny]_vars

\* C39: for every integer n, also 0 and negative n, the three TypeScript implementations
\* return the same value and agree with the JavaScript implementations, which return 0
\* for every n <= 0
C39_SumsAgree ==
    \A p \in Procs :
        (pc[p] = "done" /\ res[p].kind = "sums")
            => /\ \A k \in 1..6 : res[p].sums[k] = res[p].sums[1]
               /\ arg[p].n <= 0 => res[p].sums[4] = 0

(***************************************************************************)
(* problem3: processBalances and the pipeline it replaces.  An amount and  *)
(* a usdValue are kept in hundredths                                       *)
(***************************************************************************)
BLOCKCHAIN_PRIORITIES ==
    [Osmosis |-> 100, Ethereum |-> 50, Arbitrum |-> 30, Zilliqa |-> 20, Neo |-> 20]

\* return BLOCKCHAIN_PRIORITIES[blockchain] ?? -99
getPriority(blockchain) ==
    IF blockchain \in DOMAIN BLOCKCHAIN_PRIORITIES THEN BLOCKCHAIN_PRIORITIES[blockchain]
    ELSE -99

isValidBalance(balance) == getPriority(balance.blockchain) > -99 /\ balance.amount > 0

\* amount.toFixed(2) of a non-negative amount
toFixed(amount) ==
    toString(amount \div 100) \o <<".", (amount % 100) \div 10, amount % 10>>

\* prices[balance.currency] * balance.amount: NaN when the map has no such price
usdValueOf(prices, balance) ==
    IF balance.currency \in DOMAIN prices THEN prices[balance.currency] * balance.amount
    ELSE NaN

\* Array.prototype.sort with a consistent comparator: the sort is stable, an element
\* goes behind those the comparator puts before it and behind its equals that came
\* earlier in the array
stableSort(list, compare(_, _)) ==
    LET place(i) == Cardinality({j \in 1..Len(list) :
                        \/ compare(list[j], list[i]) < 0
                        \/ compare(list[j], list[i]) = 0 /\ j < i}) + 1
    IN  [k \in 1..Len(list) |-> list[CHOOSE i \in 1..Len(list) : place(i) = k]]

mapSeq(list, f(_)) == [i \in 1..Len(list) |-> f(list[i])]

\* (a, b) => a.priority - b.priority: ascending
byPriority_ascending(a, b) == a.priority - b.priority

\* (a, b) => b.priority - a.priority
byPriority(a, b) == b.priority - a.priority

processBalances(balances, prices) ==
    LET enhance(balance) ==
            [currency |-> balance.currency, amount |-> balance.amount,
             blockchain |-> balance.blockchain,
             priority |-> getPriority(balance.blockchain),
             usdValue |-> usdValueOf(prices, balance),
             formatted |-> toFixed(balance.amount)]
    IN  stableSort(mapSeq(SelectSeq(balances, isValidBalance), enhance), byPriority)

\* the comparator of the original pipeline
byGetPriority(lhs, rhs) ==
    LET leftPriority == getPriority(lhs.blockchain)
        rightPriority == getPriority(rhs.blockchain)
    IN  IF leftPriority > rightPriority THEN -1
        ELSE IF rightPriority > leftPriority THEN 1 ELSE 0

\* filter, sort, map as demonstratePerformance runs them
originalPipeline(balances, prices) ==
    LET format(balance) ==
            [currency |-> balance.currency, amount |-> balance.amount,
             blockchain |-> balance.blockchain,
             formatted |-> toFixed(balance.amount),
             usdValue |-> usdValueOf(prices, balance)]
    IN  mapSeq(stableSort(SelectSeq(balances, isValidBalance), byGetPriority), format)

\* demonstratePerformance on the given balances and prices
demonstratePerformance(p, balances, prices) ==
    /\ pc[p] = "idle"
    /\ arg' = [arg EXCEPT ![p] = [NoArg EXCEPT !.entry = "balances", !.balances = balances,
                                               !.prices = prices]]
    /\ Return(p, [NoRes EXCEPT !.kind = "balances", !.ok = TRUE,
                               !.originalResult = originalPipeline(balances, prices),
                               !.optimizedResult = processBalances(balances, prices)])
    /\ UNCHANGED <<wsVars, now, isConnected, authVars, scoreVars>>

(***************************************************************************)
(* Specification of the balance processing: one caller, lists of up to     *)
(* MaxBalances balances                                                    *)
(***************************************************************************)
MaxBalances == 2
Blockchains == {"Osmosis", "Zilliqa", "Neo", "Bitcoin"}
Currencies == {"ZIL", "NEO"}
\* 0, 1.50 and 10.05
Amounts == {0, 150, 1005}
BalanceInputs == [currency : Currencies, amount : Amounts, blockchain : Blockchains]
RECURSIVE ListsUpTo(_)
ListsUpTo(n) ==
    IF n = 0 THEN {<<>>}
    ELSE ListsUpTo(n - 1)
             \cup {Append(l, b) : l \in {x \in ListsUpTo(n - 1) : Len(x) = n - 1},
                                  b \in BalanceInputs}
\* a price map knows the price of neither, one or both currencies
PriceInputs == {[c \in known |-> IF c = "ZIL" THEN 2 ELSE 15] : known \in SUBSET Currencies}

\* one call in a run
NextBalances ==
    /\ pc["p1"] = "idle"
    /\ \E balances \in ListsUpTo(MaxBalances), prices \in PriceInputs :
           demonstratePerformance("p1", balances, prices)

SpecBalances == InitNoFaults /\ [][NextBalances]_vars

(***************************************************************************)
(* Properties of the balance processing                                    *)
(***************************************************************************)
BalancesDone(p) == pc[p] = "done" /\ res[p].kind = "balances"

\* a balance of the optimized result without its priority
Core(b) ==
    [currency |-> b.currency, amount |-> b.amount, blockchain |-> b.blockchain,
     formatted |-> b.formatted, usdValue |-> b.usdValue]

====
